---- MODULE Spec2Model ----
(***************************************************************************)
(* Model of orion-backend: the financial-insights engine                   *)
(* (app/modules/ai_insights/service.py and endpoints.py) and the           *)
(* application's routing, registration, login and transaction endpoints    *)
(* (app/main.py, app/modules/auth, app/modules/transactions).              *)
(*                                                                         *)
(* State: the transactions table, the clock read by datetime.utcnow(),     *)
(* the response of the last request, the log of completed requests and     *)
(* the users table.                                                        *)
(* One action per request handler.                                         *)
(*                                                                         *)
(* Representation                                                          *)
(*   date         day ordinal, day 0 = EpochYear-01-01 (all timestamps at  *)
(*                the same time of day)                                    *)
(*   amount       integer multiple of 1/UnitsPerCent cent (a Float column  *)
(*                in the source); means, rates and percentages are exact   *)
(*                rationals [n, d] (no floating-point rounding error)      *)
(*   description  sequence of one-character strings                        *)
(***************************************************************************)
EXTENDS Integers, Sequences, FiniteSets, TLC

VARIABLES db, now, out, log, users

vars == <<db, now, out, log, users>>

(***************************************************************************)
(* Generic helpers                                                         *)
(***************************************************************************)
Abs(x) == IF x < 0 THEN -x ELSE x

Min(a, b) == IF a <= b THEN a ELSE b

Max(a, b) == IF a >= b THEN a ELSE b

Range(s) == {s[i] : i \in DOMAIN s}

RECURSIVE SumSeq(_)
SumSeq(s) == IF s = <<>> THEN 0 ELSE Head(s) + SumSeq(Tail(s))

\* Exact rational n/d with d > 0; d = 0 stands for NaN (mean of nothing).
Rat(n, d) == [n |-> n, d |-> d]

RatLess(a, b) == a.n * b.d < b.n * a.d

RatEq(a, b) == a.n * b.d = b.n * a.d

RECURSIVE Gcd(_, _)
Gcd(a, b) == IF b = 0 THEN a ELSE Gcd(b, a % b)

\* a and b (denominators > 0) are the same fraction, compared in lowest terms.
SameRatio(a, b) ==
    LET ga == Gcd(Abs(a.n), a.d)
        gb == Gcd(Abs(b.n), b.d)
    IN  a.n \div ga = b.n \div gb /\ a.d \div ga = b.d \div gb

\* Stable insertion of the record x into s, sorted ascending by date.
RECURSIVE InsertByDate(_, _)
InsertByDate(x, s) ==
    IF s = <<>> THEN <<x>>
    ELSE IF x.date < s[Len(s)].date
         THEN Append(InsertByDate(x, SubSeq(s, 1, Len(s) - 1)), s[Len(s)])
         ELSE Append(s, x)

\* The rows left in their input order.
SortByDate_InputOrder(s) == s

\* sorted(s, key=lambda x: x.date) and df.sort_values('date'): ascending,
\* rows of equal date keep their input order.
RECURSIVE SortByDate(_)
SortByDate(s) ==
    IF s = <<>> THEN <<>>
    ELSE InsertByDate(s[Len(s)], SortByDate(SubSeq(s, 1, Len(s) - 1)))

\* Stable insertion of the integer x into s, sorted ascending.
RECURSIVE InsertInt(_, _)
InsertInt(x, s) ==
    IF s = <<>> THEN <<x>>
    ELSE IF x < s[Len(s)]
         THEN Append(InsertInt(x, SubSeq(s, 1, Len(s) - 1)), s[Len(s)])
         ELSE Append(s, x)

\* sorted(s) of a list of integers.
RECURSIVE SortInts(_)
SortInts(s) ==
    IF s = <<>> THEN <<>>
    ELSE InsertInt(s[Len(s)], SortInts(SubSeq(s, 1, Len(s) - 1)))

\* The distinct values of s in order of first occurrence (dict key order).
RECURSIVE Distinct(_)
Distinct(s) ==
    IF s = <<>> THEN <<>>
    ELSE LET r == Distinct(SubSeq(s, 1, Len(s) - 1))
             x == s[Len(s)]
         IN  IF x \in Range(r) THEN r ELSE Append(r, x)

(***************************************************************************)
(* Calendar: datetime, timedelta, relativedelta, pandas Period             *)
(***************************************************************************)
EpochYear == 2024

IsLeap(y) == (y % 4 = 0 /\ y % 100 # 0) \/ y % 400 = 0

DaysInMonth(y, m) ==
    IF m = 2 THEN (IF IsLeap(y) THEN 29 ELSE 28)
    ELSE IF m \in {4, 6, 9, 11} THEN 30 ELSE 31

DaysInYear(y) == IF IsLeap(y) THEN 366 ELSE 365

RECURSIVE DaysBeforeYear(_)
DaysBeforeYear(y) ==
    IF y <= EpochYear THEN 0 ELSE DaysBeforeYear(y - 1) + DaysInYear(y - 1)

RECURSIVE DaysBeforeMonth(_, _)
DaysBeforeMonth(y, m) ==
    IF m <= 1 THEN 0 ELSE DaysBeforeMonth(y, m - 1) + DaysInMonth(y, m - 1)

\* date(y, m, d) as a day ordinal.
Ordinal(y, m, d) == DaysBeforeYear(y) + DaysBeforeMonth(y, m) + d - 1

RECURSIVE YearFrom(_, _)
YearFrom(y, n) == IF n < DaysInYear(y) THEN y ELSE YearFrom(y + 1, n - DaysInYear(y))

YearOf(n) == YearFrom(EpochYear, n)

RECURSIVE MonthFrom(_, _, _)
MonthFrom(y, m, n) ==
    IF n < DaysInMonth(y, m) THEN m ELSE MonthFrom(y, m + 1, n - DaysInMonth(y, m))

MonthOf(n) == MonthFrom(YearOf(n), 1, n - DaysBeforeYear(YearOf(n)))

DayOf(n) == n - Ordinal(YearOf(n), MonthOf(n), 1) + 1

\* dt.to_period('M'): the month bucket, as a count of months since the epoch.
ToPeriod(n) == (YearOf(n) - EpochYear) * 12 + (MonthOf(n) - 1)

PeriodYear(p) == EpochYear + (p \div 12)

PeriodMonth(p) == (p % 12) + 1

\* str(Period) and strftime("%Y-%m").
PeriodLabel(p) == <<PeriodYear(p), PeriodMonth(p)>>

\* strftime("%Y-%m-%d").
DateLabel(n) == <<YearOf(n), MonthOf(n), DayOf(n)>>

\* n + relativedelta(months=k), k of either sign: the day is clamped to the
\* length of the target month.
AddMonths(n, k) ==
    LET p == ToPeriod(n) + k
        y == PeriodYear(p)
        m == PeriodMonth(p)
    IN  Ordinal(y, m, Min(DayOf(n), DaysInMonth(y, m)))

\* dt.dayofweek, Monday = 0 (day 0, 2024-01-01, is a Monday).
DayOfWeek(n) == n % 7

\* The month-end label pandas gives a freq='M' bin.
MonthEnd(p) == Ordinal(PeriodYear(p), PeriodMonth(p), DaysInMonth(PeriodYear(p), PeriodMonth(p)))

(***************************************************************************)
(* Text: str.lower, str.isalpha, str.isspace, str.strip                    *)
(***************************************************************************)
UpperLetters ==
    <<"A", "B", "C", "D", "E", "F", "G", "H", "I", "J", "K", "L", "M",
      "N", "O", "P", "Q", "R", "S", "T", "U", "V", "W", "X", "Y", "Z">>

LowerLetters ==
    <<"a", "b", "c", "d", "e", "f", "g", "h", "i", "j", "k", "l", "m",
      "n", "o", "p", "q", "r", "s", "t", "u", "v", "w", "x", "y", "z">>

Letters == Range(UpperLetters) \cup Range(LowerLetters)

\* str.lower() of one character.
LowerMap ==
    [c \in Range(UpperLetters) |->
        LowerLetters[CHOOSE i \in DOMAIN UpperLetters : UpperLetters[i] = c]]

LowerChar(c) == IF c \in DOMAIN LowerMap THEN LowerMap[c] ELSE c

IsAlpha(c) == c \in Letters

IsSpace(c) == c = " "

\* s.lower()
Lower(s) == [i \in DOMAIN s |-> LowerChar(s[i])]

RECURSIVE LStrip(_)
LStrip(s) == IF s # <<>> /\ IsSpace(Head(s)) THEN LStrip(Tail(s)) ELSE s

RECURSIVE RStrip(_)
RStrip(s) ==
    IF s # <<>> /\ IsSpace(s[Len(s)]) THEN RStrip(SubSeq(s, 1, Len(s) - 1)) ELSE s

\* s.strip()
Strip(s) == RStrip(LStrip(s))

\* ''.join(c for c in description.lower() if c.isalpha() or c.isspace()).strip()
AlphaOrSpace(c) == IsAlpha(c) \/ IsSpace(c)

NormalizeDescription(description) == Strip(SelectSeq(Lower(description), AlphaOrSpace))

(***************************************************************************)
(* Amounts                                                                 *)
(***************************************************************************)
\* Resolution of the model's amounts: 1 = 1/UnitsPerCent cent.
UnitsPerCent == 5

Cents(c) == c * UnitsPerCent

Dollars(n) == Cents(100 * n)

\* round(x, 2): to the nearest cent.  UnitsPerCent is odd, so no amount
\* lies halfway between two cents.
Round2(x) ==
    IF x >= 0 THEN ((x + (UnitsPerCent \div 2)) \div UnitsPerCent) * UnitsPerCent
    ELSE -(((-x + (UnitsPerCent \div 2)) \div UnitsPerCent) * UnitsPerCent)

(***************************************************************************)
(* The transactions table and the feature builder                          *)
(***************************************************************************)
\* The category of a row that has none (None).
NullCategory == "None"

\* One row of Transaction: the columns the engine reads.
Tx(id, user, date, description, amount, category) ==
    [id |-> id, user_id |-> user, date |-> date, description |-> description,
     amount |-> amount, category |-> category]

\* AIService._get_transactions: the user's rows with start <= date <= end,
\* in table order.
InWindow(user, start, end, tx) ==
    tx.user_id = user /\ tx.date >= start /\ tx.date <= end

GetTransactions(user, start, end) ==
    LET Keep(tx) == InWindow(user, start, end, tx)
    IN  SelectSeq(db, Keep)

\* One row of the DataFrame before the derived columns are added.
FeatureRow(tx) ==
    [id |-> tx.id, date |-> tx.date, description |-> tx.description,
     amount |-> tx.amount, amount_abs |-> Abs(tx.amount), category |-> tx.category,
     type |-> IF tx.amount < 0 THEN "expense" ELSE "income"]

\* Marks the undefined days_since_last of the first row (NaN).
NoValue == "NaN"

\* AIService._prepare_transaction_data: one row per transaction, sorted by
\* date, with the month bucket and the gap to the previous row.
PrepareTransactionData(transactions) ==
    LET rows   == [i \in DOMAIN transactions |-> FeatureRow(transactions[i])]
        sorted == SortByDate(rows)
    IN  [i \in DOMAIN sorted |->
            [id |-> sorted[i].id, date |-> sorted[i].date,
             description |-> sorted[i].description, amount |-> sorted[i].amount,
             amount_abs |-> sorted[i].amount_abs, category |-> sorted[i].category,
             type |-> sorted[i].type,
             month |-> ToPeriod(sorted[i].date),
             day_of_week |-> DayOfWeek(sorted[i].date),
             is_weekend |-> DayOfWeek(sorted[i].date) \in {5, 6},
             days_since_last |->
                 IF i = 1 THEN NoValue ELSE sorted[i].date - sorted[i - 1].date]]

IsExpense(row) == row.amount < 0

\* df[df['amount'] < 0]
Expenses(df) == SelectSeq(df, IsExpense)

Column(df, name) == [i \in DOMAIN df |-> df[i][name]]

(***************************************************************************)
(* Recurring payments: AIService._identify_recurring_payments              *)
(***************************************************************************)
MinOccurrences == 3

IntervalTolerance == 5

MinInterval == 20

MaxInterval == 45

\* The grouping key without the normalisation of the description.
RecurringKey_RawDescription(tx) == <<tx.description, Round2(tx.amount)>>

\* The grouping key of one transaction.
RecurringKey(tx) == <<NormalizeDescription(tx.description), Round2(tx.amount)>>

\* transaction_groups[key]: the expenses of that key, in snapshot order.
GroupOf(transactions, key) ==
    LET Member(tx) == tx.amount < 0 /\ RecurringKey(tx) = key
    IN  SelectSeq(transactions, Member)

\* The keys of transaction_groups in insertion order.
GroupKeys(transactions) ==
    LET exp == SelectSeq(transactions, IsExpense)
    IN  Distinct([i \in DOMAIN exp |-> RecurringKey(exp[i])])

\* deltas: the day gaps between date-consecutive members.
Deltas(txs_sorted) ==
    [i \in 1..(Len(txs_sorted) - 1) |-> txs_sorted[i + 1].date - txs_sorted[i].date]

\* median_interval = sorted(deltas)[len(deltas)//2] (0-based index).
MedianInterval(deltas) == SortInts(deltas)[(Len(deltas) \div 2) + 1]

Regular(deltas, median_interval) ==
    \A i \in DOMAIN deltas : Abs(deltas[i] - median_interval) <= IntervalTolerance

\* The period test with both limits excluded.
Monthlyish_Exclusive(median_interval) ==
    MinInterval < median_interval /\ median_interval < MaxInterval

Monthlyish(median_interval) ==
    MinInterval <= median_interval /\ median_interval <= MaxInterval

\* Whether the group of `key` is appended to `recurring`.
IsRecurringGroup(txs) ==
    /\ Len(txs) >= MinOccurrences
    /\ Len(txs) - 1 >= 2
    /\ LET deltas == Deltas(SortByDate(txs))
           median_interval == MedianInterval(deltas)
       IN  Regular(deltas, median_interval) /\ Monthlyish(median_interval)

\* The entry appended for an accepted group.
RecurringEntry(key, txs) ==
    LET txs_sorted == SortByDate(txs)
        median_interval == MedianInterval(Deltas(txs_sorted))
    IN  [description |-> txs_sorted[1].description,
         amount |-> key[2],
         frequency_days |-> median_interval,
         next_expected |-> DateLabel(txs_sorted[Len(txs_sorted)].date + median_interval),
         occurrences |-> Len(txs)]

\* The detector with transaction_groups kept between calls: the rows of the
\* earlier recurring-payment requests are still in the groups.
IdentifyRecurringPayments_SharedGroups(transactions) ==
    LET Earlier(i) == IF log[i].response.op = "recurring_payments"
                      THEN log[i].response.snapshot ELSE <<>>
        carried == IF Len(log) = 0 THEN <<>>
                   ELSE IF Len(log) = 1 THEN Earlier(1)
                   ELSE Earlier(Len(log) - 1) \o Earlier(Len(log))
        all  == carried \o transactions
        keys == GroupKeys(all)
        Accepted(key) == IsRecurringGroup(GroupOf(all, key))
        kept == SelectSeq(keys, Accepted)
    IN  [i \in DOMAIN kept |-> RecurringEntry(kept[i], GroupOf(all, kept[i]))]

IdentifyRecurringPayments(transactions) ==
    LET keys == GroupKeys(transactions)
        Accepted(key) == IsRecurringGroup(GroupOf(transactions, key))
        kept == SelectSeq(keys, Accepted)
    IN  [i \in DOMAIN kept |-> RecurringEntry(kept[i], GroupOf(transactions, kept[i]))]

(***************************************************************************)
(* Spending analysis: the helpers of analyze_spending_patterns             *)
(***************************************************************************)
\* The category names of the model in str order (groupby sorts its keys).
CategoryOrder ==
    <<"Dining", "Entertainment", "Food", "Income", "Rent", "Shopping", "Uncategorized">>

Categories == Range(CategoryOrder)

\* The sorted distinct values of a list of integers (groupby keys).
SortedKeys(values) == SortInts(Distinct(values))

RowsOfMonth(rows, m) == LET In(r) == r.month = m IN SelectSeq(rows, In)

RowsOfCategory(rows, c) == LET In(r) == r.category = c IN SelectSeq(rows, In)

\* rows.groupby('month')['amount'].sum().abs(): one entry per month present,
\* ascending.
MonthlyTotals(rows) ==
    LET months == SortedKeys(Column(rows, "month"))
    IN  [i \in DOMAIN months |->
            [month |-> months[i],
             amount |-> Abs(SumSeq(Column(RowsOfMonth(rows, months[i]), "amount")))]]

\* Series.mean(): NaN (d = 0) for an empty series.
Mean(values) == Rat(SumSeq(values), Len(values))

SeqMax(values) ==
    IF values = <<>> THEN NoValue
    ELSE CHOOSE v \in Range(values) : \A w \in Range(values) : w <= v

SeqMin(values) ==
    IF values = <<>> THEN NoValue
    ELSE CHOOSE v \in Range(values) : \A w \in Range(values) : w >= v

\* The sign of the slope with a flat fit counted as rising.
SlopeSign_NeverStable(y) ==
    LET n   == Len(y)
        sxy == SumSeq([i \in 1..n |-> (i - 1) * y[i]])
        sx  == SumSeq([i \in 1..n |-> i - 1])
    IN  IF n * sxy - sx * SumSeq(y) >= 0 THEN 1 ELSE -1

\* The sign of z[0] of np.polyfit(arange(n), y, 1): the least-squares slope
\* has the sign of n * sum(x*y) - sum(x) * sum(y).
SlopeSign(y) ==
    LET n   == Len(y)
        sxy == SumSeq([i \in 1..n |-> (i - 1) * y[i]])
        sx  == SumSeq([i \in 1..n |-> i - 1])
        c   == n * sxy - sx * SumSeq(y)
    IN  IF c > 0 THEN 1 ELSE IF c < 0 THEN -1 ELSE 0

\* The trend fitted from one month on.
TrendLabel_FromOneMonth(y) ==
    IF Len(y) > 0
    THEN (IF SlopeSign(y) > 0 THEN "increasing"
          ELSE IF SlopeSign(y) < 0 THEN "decreasing" ELSE "stable")
    ELSE "insufficient_data"

TrendLabel(y) ==
    IF Len(y) > 1
    THEN (IF SlopeSign(y) > 0 THEN "increasing"
          ELSE IF SlopeSign(y) < 0 THEN "decreasing" ELSE "stable")
    ELSE "insufficient_data"

\* The monthly statistics taken over all rows, income included.
AnalyzeMonthlySpending_AllRows(df) ==
    LET monthly == MonthlyTotals(df)
        y       == Column(monthly, "amount")
    IN  [average_monthly_spend |-> Mean(y),
         max_monthly_spend |-> SeqMax(y),
         min_monthly_spend |-> SeqMin(y),
         trend |-> TrendLabel(y),
         data |-> [i \in DOMAIN monthly |->
                      [month |-> PeriodLabel(monthly[i].month),
                       amount |-> monthly[i].amount]]]

\* AIService._analyze_monthly_spending (df is never empty where it is called).
AnalyzeMonthlySpending(df) ==
    LET monthly == MonthlyTotals(Expenses(df))
        y       == Column(monthly, "amount")
    IN  [average_monthly_spend |-> Mean(y),
         max_monthly_spend |-> SeqMax(y),
         min_monthly_spend |-> SeqMin(y),
         trend |-> TrendLabel(y),
         data |-> [i \in DOMAIN monthly |->
                      [month |-> PeriodLabel(monthly[i].month),
                       amount |-> monthly[i].amount]]]

\* The categories present in rows, in str order.
PresentCategories(rows) ==
    LET Present(c) == \E i \in DOMAIN rows : rows[i].category = c
    IN  SelectSeq(CategoryOrder, Present)

\* rows.groupby('category')['amount'].sum(): one signed total per category.
CategorySums(rows) ==
    LET cats == PresentCategories(rows)
    IN  [i \in DOMAIN cats |->
            [category |-> cats[i],
             amount |-> SumSeq(Column(RowsOfCategory(rows, cats[i]), "amount"))]]

\* Stable insertion into a list sorted by amount descending.
RECURSIVE InsertByAmountDesc(_, _)
InsertByAmountDesc(x, s) ==
    IF s = <<>> THEN <<x>>
    ELSE IF x.amount > s[Len(s)].amount
         THEN Append(InsertByAmountDesc(x, SubSeq(s, 1, Len(s) - 1)), s[Len(s)])
         ELSE Append(s, x)

\* The category totals left in groupby order.
SortByAmountDesc_Unsorted(s) == s

\* sort_values(ascending=False); equal totals keep the groupby order.
RECURSIVE SortByAmountDesc(_)
SortByAmountDesc(s) ==
    IF s = <<>> THEN <<>>
    ELSE InsertByAmountDesc(s[Len(s)], SortByAmountDesc(SubSeq(s, 1, Len(s) - 1)))

\* expenses.groupby('category')['amount'].sum().abs().sort_values(ascending=False)
CategorySpending(expenses) ==
    LET sums == CategorySums(expenses)
    IN  SortByAmountDesc([i \in DOMAIN sums |->
            [category |-> sums[i].category, amount |-> Abs(sums[i].amount)]])

\* AIService._analyze_categories
AnalyzeCategories(df) ==
    LET expenses          == Expenses(df)
        category_spending == CategorySpending(expenses)
        total_spent       == SumSeq(Column(category_spending, "amount"))
        top == [type |-> "top_spending_category",
                category |-> category_spending[1].category,
                amount |-> category_spending[1].amount,
                percentage |-> Rat(category_spending[1].amount * 100, total_spent)]
        dist == [type |-> "category_distribution", data |-> category_spending]
    IN  IF expenses = <<>> THEN <<>>
        ELSE IF category_spending = <<>> THEN <<dist>>
        ELSE <<top, dist>>

MinRowsForAnomalies == 10

MinExpensesForAnomalies == 5

SigmaFactor == 3

\* n^2 * (n - 1) * variance of the sample: n * (n * sum(x^2) - sum(x)^2).
ScaledVariance(x) ==
    LET n == Len(x)
    IN  n * (n * SumSeq([i \in DOMAIN x |-> x[i] * x[i]]) - SumSeq(x) * SumSeq(x))

\* v > mean + SigmaFactor * std, for the sample x (n >= 2), without
\* fractions: n*v - sum > 0 and (n*v - sum)^2 * (n-1) > SigmaFactor^2 * n^2*(n-1)*var.
AboveThreshold(v, x) ==
    LET n == Len(x)
        e == n * v - SumSeq(x)
    IN  e > 0 /\ e * e * (n - 1) > SigmaFactor * SigmaFactor * ScaledVariance(x)

\* The rule-based pass without the std == 0 return, flagging amounts at or
\* above the threshold.
DetectAnomaliesRule_NoSigmaGuard(df) ==
    LET expenses == Column(Expenses(df), "amount_abs")
        n == Len(expenses)
        Flagged(row) ==
            LET e == n * Abs(row.amount) - SumSeq(expenses)
            IN  /\ row.amount < 0
                /\ e >= 0
                /\ e * e * (n - 1) >= SigmaFactor * SigmaFactor * ScaledVariance(expenses)
    IN  IF Len(df) < MinRowsForAnomalies THEN <<>>
        ELSE IF Len(expenses) < MinExpensesForAnomalies THEN <<>>
        ELSE SelectSeq(df, Flagged)

\* The rule-based pass comparing every row, income rows too, with the
\* threshold.
DetectAnomaliesRule_AnyRow(df) ==
    LET expenses == Column(Expenses(df), "amount_abs")
        Flagged(row) == AboveThreshold(Abs(row.amount), expenses)
    IN  IF Len(df) < MinRowsForAnomalies THEN <<>>
        ELSE IF Len(expenses) < MinExpensesForAnomalies THEN <<>>
        ELSE IF ScaledVariance(expenses) = 0 THEN <<>>
        ELSE SelectSeq(df, Flagged)

\* AIService._detect_anomalies: the rule-based pass.
DetectAnomaliesRule(df) ==
    LET expenses == Column(Expenses(df), "amount_abs")
        Flagged(row) == row.amount < 0 /\ AboveThreshold(Abs(row.amount), expenses)
    IN  IF Len(df) < MinRowsForAnomalies THEN <<>>
        ELSE IF Len(expenses) < MinExpensesForAnomalies THEN <<>>
        ELSE IF ScaledVariance(expenses) = 0 THEN <<>>
        ELSE SelectSeq(df, Flagged)

\* str.contains(pattern, case=False) for a literal pattern.
ContainsText(text, pattern) ==
    \E i \in 1..(Len(text) - Len(pattern) + 1) :
        SubSeq(Lower(text), i, i + Len(pattern) - 1) = pattern

FeeWords ==
    { <<"f", "e", "e">>,
      <<"c", "h", "a", "r", "g", "e">>,
      <<"p", "e", "n", "a", "l", "t", "y">> }

DiscretionaryCategories == {"Dining", "Entertainment", "Shopping", "Hobbies"}

FeeLimitDollars == 10

DiscretionaryLimitDollars == 200

\* AIService._identify_savings_opportunities
IdentifySavingsOpportunities(df) ==
    LET IsFee(row) == \E w \in FeeWords : ContainsText(row.description, w)
        fees == SelectSeq(df, IsFee)
        total_fees == SumSeq(Column(fees, "amount"))
        IsDisc(row) == row.category \in DiscretionaryCategories /\ row.amount < 0
        disc_spending == SelectSeq(df, IsDisc)
        monthly_disc == Mean(Column(MonthlyTotals(disc_spending), "amount"))
        high_fees ==
            IF fees # <<>> /\ total_fees < -Dollars(FeeLimitDollars)
            THEN <<[type |-> "high_fees", amount_saved |-> Abs(total_fees)]>>
            ELSE <<>>
        high_disc ==
            IF disc_spending # <<>>
               /\ RatLess(Rat(Dollars(DiscretionaryLimitDollars), 1), monthly_disc)
            THEN <<[type |-> "high_discretionary_spending", monthly_amount |-> monthly_disc]>>
            ELSE <<>>
    IN  high_fees \o high_disc

\* groupby('category')['amount'].sum().idxmax() over the expense rows: the
\* first category, in groupby order, whose signed total is the largest.
IdxMaxCategory(expenses) ==
    LET sums == CategorySums(expenses)
        i == CHOOSE i \in DOMAIN sums :
                 /\ \A j \in DOMAIN sums : sums[j].amount <= sums[i].amount
                 /\ \A j \in 1..(i - 1) : sums[j].amount < sums[i].amount
    IN  sums[i].category

\* AIService.analyze_spending_patterns on the fetched transactions: the
\* returned dict, or "raise" where idxmax raises on a snapshot without
\* expense rows.
AnalyzeSpendingPatterns(transactions, months) ==
    LET df        == PrepareTransactionData(transactions)
        anomalies == DetectAnomaliesRule(df)
        recurring == IdentifyRecurringPayments(transactions)
        savings   == IdentifySavingsOpportunities(df)
        insights  ==
            <<[type |-> "spending_trend", data |-> AnalyzeMonthlySpending(df)]>>
            \o AnalyzeCategories(df)
            \o (IF anomalies # <<>>
                THEN <<[type |-> "spending_anomalies", data |-> anomalies]>> ELSE <<>>)
            \o (IF recurring # <<>>
                THEN <<[type |-> "recurring_payments", data |-> recurring]>> ELSE <<>>)
            \o (IF savings # <<>>
                THEN <<[type |-> "savings_opportunities", data |-> savings]>> ELSE <<>>)
        total_spent == -SumSeq(Column(Expenses(df), "amount"))
    IN  IF transactions = <<>>
        THEN [result |-> "return", insights |-> <<>>,
              summary |-> [message |-> "No transaction data available for analysis"]]
        ELSE IF Expenses(df) = <<>>
        THEN [result |-> "raise"]
        ELSE [result |-> "return", insights |-> insights,
              summary |-> [total_spent |-> total_spent,
                           avg_monthly_spend |-> Rat(total_spent, months),
                           top_category |-> IdxMaxCategory(Expenses(df)),
                           insights_generated |-> Len(insights)]]

(***************************************************************************)
(* Forecast: the helpers of predict_future_spending                        *)
(***************************************************************************)
MinHistoryMonths == 12

MinForecastMonths == 6

MaxWindow == 3

\* rows.groupby(pd.Grouper(key='date', freq='M'))['amount'].sum().abs(): one
\* bin per calendar month from the month of the first row to the month of
\* the last row, a month without rows holding 0.
MonthlyBins(rows) ==
    LET months == SortedKeys(Column(rows, "month"))
        first  == months[1]
        last   == months[Len(months)]
    IN  IF rows = <<>> THEN <<>>
        ELSE [i \in 1..(last - first + 1) |->
                 [month |-> first + i - 1,
                  amount |-> Abs(SumSeq(Column(RowsOfMonth(rows, first + i - 1), "amount")))]]

\* series.rolling(window).mean().iloc[-window:].mean(): the mean of the last
\* `window` rolling means, each the mean of `window` consecutive values.
RollingBaseline(y, window) ==
    LET n == Len(y)
        RollingSum(i) == SumSeq(SubSeq(y, i - window + 1, i))
    IN  Rat(SumSeq([j \in 1..window |-> RollingSum(n - window + j)]), window * window)

\* The perturbation cycling over two periods instead of three.
Seasonal_PeriodTwo(baseline, i) ==
    Rat(baseline.n * (10 + ((i % 2) - 1)), baseline.d * 10)

\* predictions * (1 + (i % 3 - 1) * 0.1), i from 0.
Seasonal(baseline, i) == Rat(baseline.n * (10 + ((i % 3) - 1)), baseline.d * 10)

\* The confidence without its cap.
Confidence_Uncapped(n) == Rat(5 + n, 10)

\* min(0.9, 0.5 + 0.1 * n)
Confidence(n) == Rat(Min(9, 5 + n), 10)

\* AIService.predict_future_spending on the fetched transactions.
PredictFutureSpending(transactions, months) ==
    LET df == PrepareTransactionData(transactions)
        monthly_spending == MonthlyBins(Expenses(df))
        n == Len(monthly_spending)
        window_size == Min(MaxWindow, n \div 2)
        baseline == RollingBaseline(Column(monthly_spending, "amount"), window_size)
        last_date == MonthEnd(monthly_spending[n].month)
    IN  IF transactions = <<>>
        THEN [predictions |-> <<>>, confidence |-> Rat(0, 1),
              message |-> <<"Insufficient data for prediction">>]
        ELSE IF n < MinForecastMonths
        THEN [predictions |-> <<>>, confidence |-> Rat(0, 1),
              message |-> <<"Insufficient historical data (need at least 6 months)">>]
        ELSE [predictions |->
                  [i \in 1..Max(months, 0) |->
                      [date |-> PeriodLabel(ToPeriod(AddMonths(last_date, i))),
                       amount |-> Seasonal(baseline, i - 1)]],
              confidence |-> Confidence(n),
              message |-> <<"Prediction based on months of historical data", n>>]

(***************************************************************************)
(* Requests and responses                                                  *)
(***************************************************************************)
Users == {1, 2}

\* What a handler leaves in `out`: the request (op, user, months), the rows
\* its query fetched, and the response (status 200 with a body, or the
\* HTTPException with status 500 raised by the handler's except clause).
Response(op, user, months, snapshot, status, body) ==
    [op |-> op, user |-> user, months |-> months, snapshot |-> snapshot,
     status |-> status, body |-> body]

NoResponse == Response("none", 0, 0, <<>>, 0, <<>>)

\* The value datetime.utcnow() returns during the runs.
Today == Ordinal(2025, 6, 25)

(***************************************************************************)
(* POST /ai-insights/categorize                                            *)
(***************************************************************************)
\* description IS NULL: a one-element list holding the marker, equal to no
\* list of characters.
NullDescription == <<NullCategory>>

\* word in desc
Contains(desc, word) ==
    \E i \in 0..(Len(desc) - Len(word)) : SubSeq(desc, i + 1, i + Len(word)) = word

\* The keyword lists of the rule chain, in the order the chain tries them.
CategoryKeywords ==
    << [category |-> "Entertainment",
         words |-> { <<"n", "e", "t", "f", "l", "i", "x">>,
                    <<"s", "p", "o", "t", "i", "f", "y">>,
                    <<"d", "i", "s", "n", "e", "y">>,
                    <<"h", "u", "l", "u">> }],
       [category |-> "Transportation",
         words |-> { <<"u", "b", "e", "r">>,
                    <<"l", "y", "f", "t">>,
                    <<"t", "a", "x", "i">>,
                    <<"t", "r", "a", "i", "n">>,
                    <<"b", "u", "s">> }],
       [category |-> "Food & Dining",
         words |-> { <<"m", "c", "d", "o", "n", "a", "l", "d", "s">>,
                    <<"s", "t", "a", "r", "b", "u", "c", "k", "s">>,
                    <<"r", "e", "s", "t", "a", "u", "r", "a", "n", "t">>,
                    <<"c", "a", "f", "e">> }],
       [category |-> "Shopping",
         words |-> { <<"w", "a", "l", "m", "a", "r", "t">>,
                    <<"t", "a", "r", "g", "e", "t">>,
                    <<"a", "m", "a", "z", "o", "n">> }],
       [category |-> "Utilities",
         words |-> { <<"e", "l", "e", "c", "t", "r", "i", "c">>,
                    <<"w", "a", "t", "e", "r">>,
                    <<"g", "a", "s">>,
                    <<"u", "t", "i", "l", "i", "t", "y">> }] >>

\* The category the chain assigns to a description.
KeywordCategory(description) ==
    LET desc == Lower(description)
        Hit(rule) == \E word \in rule.words : Contains(desc, word)
        hits == SelectSeq(CategoryKeywords, Hit)
    IN  IF hits = <<>> THEN "Miscellaneous" ELSE hits[1].category

\* if not tx.category or tx.category == 'Uncategorized': None, the empty
\* string and 'Uncategorized'.
NeedsCategory(tx) == tx.category \in {NullCategory, "", "Uncategorized"}

\* The rows query.all() returns; transaction_ids None and [] are both <<>>.
CategorizeQuery(rows, user, transaction_ids) ==
    LET Selected(tx) ==
            /\ tx.user_id = user
            /\ IF transaction_ids # <<>> THEN tx.id \in Range(transaction_ids)
               ELSE tx.category \in {NullCategory, "Uncategorized"}
    IN  SelectSeq(rows, Selected)

\* AIService.categorize_transactions on the table `rows`: the table after
\* the call and the returned dict, or "raise" where description.lower() is
\* called on None; nothing is committed then.
CategorizeTransactions(rows, user, transaction_ids) ==
    LET transactions == CategorizeQuery(rows, user, transaction_ids)
        ids     == {tx.id : tx \in Range(transactions)}
        Set(tx) == tx.id \in ids /\ NeedsCategory(tx)
        categorized == Len(SelectSeq(transactions, NeedsCategory))
    IN  IF transactions = <<>>
        THEN [result |-> "return", rows |-> rows,
              value |-> [categorized |-> 0, message |-> "No transactions to categorize"]]
        ELSE IF \E tx \in Range(transactions) :
                    NeedsCategory(tx) /\ tx.description = NullDescription
        THEN [result |-> "raise", rows |-> rows, value |-> <<>>]
        ELSE [result |-> "return",
              rows |-> [i \in DOMAIN rows |->
                          IF Set(rows[i])
                          THEN [rows[i] EXCEPT !.category = KeywordCategory(rows[i].description)]
                          ELSE rows[i]],
              value |-> [categorized |-> categorized,
                         message |-> "Successfully categorized " \o ToString(categorized)
                                         \o " transactions"]]

\* The endpoint: background_tasks is always injected, so the call is queued
\* and the answer is "processing"; the task then runs on the same session.
\* `out` keeps the table before the call as the snapshot, the request's ids
\* and what the task returned.
CategorizeEndpoint(user, transaction_ids) ==
    LET task == CategorizeTransactions(db, user, transaction_ids)
    IN  /\ db' = task.rows
        /\ out' = [transaction_ids |-> transaction_ids, task |-> task]
                   @@ Response("categorize", user, 0, db, 200,
                               [status |-> "processing",
                                message |-> "Categorization started in the background"])
        /\ UNCHANGED now

(***************************************************************************)
(* GET /ai-insights/recurring-payments                                     *)
(***************************************************************************)
RecurringWindowDays == 30

GetRecurringPayments(user, months) ==
    LET end_date     == now
        start_date   == end_date - months * RecurringWindowDays
        transactions == GetTransactions(user, start_date, end_date)
        body == IF transactions = <<>> THEN <<>>
                ELSE IdentifyRecurringPayments(transactions)
    IN  /\ out' = Response("recurring_payments", user, months, transactions, 200, body)
        /\ UNCHANGED <<db, now>>

(***************************************************************************)
(* GET /ai-insights/spending-patterns                                      *)
(***************************************************************************)
GetSpendingPatterns(user, months) ==
    LET end_date     == now
        start_date   == AddMonths(end_date, -months)
        transactions == GetTransactions(user, start_date, end_date)
        result       == AnalyzeSpendingPatterns(transactions, months)
    IN  /\ out' = IF result.result = "raise"
                  THEN Response("spending_patterns", user, months, transactions, 500,
                                [detail |-> "Error analyzing spending patterns"])
                  ELSE Response("spending_patterns", user, months, transactions, 200,
                                [insights |-> result.insights, summary |-> result.summary])
        /\ UNCHANGED <<db, now>>

(***************************************************************************)
(* GET /ai-insights/predict-spending                                       *)
(***************************************************************************)
GetPredictSpending(user, months) ==
    LET historical_months == Max(MinHistoryMonths, months * 2)
        end_date     == now
        start_date   == AddMonths(end_date, -historical_months)
        transactions == GetTransactions(user, start_date, end_date)
    IN  /\ out' = Response("predict_spending", user, months, transactions, 200,
                           PredictFutureSpending(transactions, months))
        /\ UNCHANGED <<db, now>>

(***************************************************************************)
(* GET /ai-insights/financial-health                                       *)
(***************************************************************************)
HealthAnalysisMonths == 12

HealthWindowDays == 90

LowSavingsRate == 10

IsIncome(row) == row.amount > 0

\* round(x, 1) and f"{x:.1f}" of the rational x, in tenths: to the nearest
\* tenth, an exact half to the even tenth.
RoundTenths(x) ==
    LET whole == x.n \div x.d
        q == (10 * (x.n % x.d)) \div x.d
        r == (10 * (x.n % x.d)) % x.d
        tenths == 10 * whole + q
    IN  IF 2 * r > x.d THEN tenths + 1
        ELSE IF 2 * r < x.d THEN tenths
        ELSE IF tenths % 2 = 0 THEN tenths ELSE tenths + 1

\* savings_rate = ((income - expenses) / income * 100) if income > 0 else 0
SavingsRate(income, expenses) ==
    IF income > 0 THEN Rat((income - expenses) * 100, income) ELSE Rat(0, 1)

\* The score without the clamp to [0, 100].
HealthScore_Unclamped(savings_rate) ==
    Rat(100 * savings_rate.d + savings_rate.n, 2 * savings_rate.d)

\* health_score = min(100, max(0, 50 + (savings_rate * 0.5)))
HealthScore(savings_rate) ==
    LET raw == Rat(100 * savings_rate.d + savings_rate.n, 2 * savings_rate.d)
    IN  IF RatLess(raw, Rat(0, 1)) THEN Rat(0, 1)
        ELSE IF RatLess(Rat(100, 1), raw) THEN Rat(100, 1)
        ELSE raw

HealthRecommendations ==
    <<"Review your monthly subscriptions and cancel unused services",
      "Set up automatic transfers to savings on payday",
      "Create a budget for discretionary spending">>

\* The insights of the health response without those taken from the
\* spending analysis.
HealthInsights_SavingsOnly(savings_rate, spending_insights) ==
    IF RatLess(savings_rate, Rat(LowSavingsRate, 1))
    THEN <<[type |-> "low_savings_rate", severity |-> "high",
            rate |-> RoundTenths(savings_rate)]>>
    ELSE <<>>

\* The insights of the health response: the low-savings insight, then one
\* per top_spending_category insight of the spending analysis.
HealthInsights(savings_rate, spending_insights) ==
    LET IsTop(insight) == insight.type = "top_spending_category"
        tops == SelectSeq(spending_insights, IsTop)
    IN  (IF RatLess(savings_rate, Rat(LowSavingsRate, 1))
         THEN <<[type |-> "low_savings_rate", severity |-> "high",
                 rate |-> RoundTenths(savings_rate)]>>
         ELSE <<>>)
        \o [i \in DOMAIN tops |->
               [type |-> "spending_insight", severity |-> "medium",
                category |-> tops[i].category,
                percentage |-> RoundTenths(tops[i].percentage)]]

GetFinancialHealth(user) ==
    LET spending == AnalyzeSpendingPatterns(
                        GetTransactions(user, AddMonths(now, -HealthAnalysisMonths), now),
                        HealthAnalysisMonths)
        end_date     == now
        start_date   == end_date - HealthWindowDays
        transactions == GetTransactions(user, start_date, end_date)
        df           == PrepareTransactionData(transactions)
        income       == SumSeq(Column(SelectSeq(df, IsIncome), "amount"))
        expenses     == Abs(SumSeq(Column(Expenses(df), "amount")))
        savings_rate == SavingsRate(income, expenses)
        health_score == HealthScore(savings_rate)
    IN  /\ out' = IF spending.result = "raise"
                  THEN Response("financial_health", user, 0, transactions, 500,
                                [detail |-> "Error calculating financial health"])
                  ELSE Response("financial_health", user, 0, transactions, 200,
                                [score |-> RoundTenths(health_score),
                                 savings_rate |-> RoundTenths(savings_rate),
                                 income_last_3m |-> income,
                                 expenses_last_3m |-> expenses,
                                 insights |-> HealthInsights(savings_rate, spending.insights),
                                 recommendations |-> HealthRecommendations])
        /\ UNCHANGED <<db, now>>

(***************************************************************************)
(* Inputs of the recurring-payment runs                                    *)
(***************************************************************************)
Netflix == <<"N", "e", "t", "f", "l", "i", "x">>

NetflixRef == <<"N", "E", "T", "F", "L", "I", "X", " ", "#", "2">>

Gym == <<"G", "y", "m">>

\* The date of the first occurrence of a series.
SeriesStart == Today - 200

MaxGaps == 4

GapChoices == {19, 20, 24, 30, 46}

MonthsChoices == {12, 2, 0, -1}

\* The dates of a series: the first occurrence, then one more per gap.
RECURSIVE SeriesDates(_, _)
SeriesDates(start, gaps) ==
    IF gaps = <<>> THEN <<start>>
    ELSE <<start>> \o SeriesDates(start + Head(gaps), Tail(gaps))

\* A series of identical expenses of `user`, ids from `first_id`.
Series(first_id, user, description, amount, dates) ==
    [i \in DOMAIN dates |->
        Tx(first_id + i - 1, user, dates[i], description, amount, "Entertainment")]

\* The same series with the spelling of the description and the sub-cent
\* part of the amount varying from row to row.
VariedSeries(first_id, user, dates) ==
    [i \in DOMAIN dates |->
        Tx(first_id + i - 1, user, dates[i],
           IF i % 2 = 1 THEN Netflix ELSE NetflixRef,
           IF i % 2 = 1 THEN -Dollars(15) ELSE -Dollars(15) - 2,
           "Entertainment")]

Reverse(s) == [i \in DOMAIN s |-> s[Len(s) + 1 - i]]

\* Rows stored beside a series: nothing, an income of the same description
\* and size, an expense of another amount, another user's expense of the
\* same key, or a second monthly series.
ExtraRows ==
    { <<>>,
      <<Tx(90, 1, SeriesStart + 5, Netflix, Dollars(15), "Income")>>,
      <<Tx(90, 1, SeriesStart + 5, Netflix, -Dollars(16), "Entertainment")>>,
      <<Tx(90, 2, SeriesStart + 5, Netflix, -Dollars(15), "Entertainment")>>,
      Series(90, 1, Gym, -Dollars(40), SeriesDates(SeriesStart + 3, <<31, 30>>)) }

\* Three identical expenses d days apart, stored in date order or not.
EvenSeriesDbs ==
    UNION { { Series(1, 1, Netflix, -Dollars(15), SeriesDates(SeriesStart, <<d, d>>)) \o x,
              x \o Reverse(Series(1, 1, Netflix, -Dollars(15),
                                  SeriesDates(SeriesStart, <<d, d>>))) } :
            <<d, x>> \in ((MinInterval - 1)..(MaxInterval + 1)) \X ExtraRows }

GapSeqs == UNION { [1..n -> GapChoices] : n \in 1..MaxGaps }

UnevenSeriesDbs == { VariedSeries(1, 1, SeriesDates(SeriesStart, g)) : g \in GapSeqs }

NetflixDash == <<"n", "e", "t", "-", "F", "L", "I", "X", "2", "!">>

\* A monthly series whose descriptions differ only in letter case, digits
\* and punctuation and whose amounts differ below the cent, stored with an
\* income of the same description and size and an expense that rounds to
\* another cent.
PunctuatedSeriesDbs ==
    { [i \in 1..3 |->
          Tx(i, 1, SeriesStart + d * (i - 1),
             IF i = 2 THEN NetflixDash ELSE Netflix,
             IF i = 3 THEN -Dollars(15) + 2 ELSE -Dollars(15),
             "Entertainment")]
      \o <<Tx(4, 1, SeriesStart + 2 * d + 1, NetflixDash, Dollars(15), "Income"),
            Tx(5, 1, SeriesStart + 2 * d + 2, Netflix, -Dollars(15) - 3, "Entertainment")>> :
      d \in {MinInterval, 30, MaxInterval + 1} }

RecurringDbs == {<<>>} \cup EvenSeriesDbs \cup UnevenSeriesDbs \cup PunctuatedSeriesDbs

InitRecurring ==
    /\ db \in RecurringDbs
    /\ now = Today
    /\ out = NoResponse
    /\ log = <<>>
    /\ users = <<>>

NextRecurring ==
    \E user \in Users, months \in MonthsChoices :
        GetRecurringPayments(user, months) /\ UNCHANGED <<log, users>>

SpecRecurring == InitRecurring /\ [][NextRecurring]_vars

(***************************************************************************)
(* Claims about the recurring-payment detector                             *)
(***************************************************************************)
IsRecurringResponse == out.op = "recurring_payments" /\ out.status = 200

\* The expense rows of the fetched snapshot that share the grouping key of t.
SameKeyRows(snapshot, t) ==
    {x \in Range(snapshot) : x.amount < 0 /\ RecurringKey(x) = RecurringKey(t)}

\* The entries of a response body reported for the group of t.
EntriesOf(body, t) ==
    {i \in DOMAIN body :
        /\ NormalizeDescription(body[i].description) = NormalizeDescription(t.description)
        /\ body[i].amount = Round2(t.amount)}

\* Exactly three rows, identical in description and amount, d days apart.
ThreeEvenlySpaced(rows, t, d) ==
    /\ Cardinality(rows) = 3
    /\ \A x \in rows : x.description = t.description /\ x.amount = t.amount
    /\ \E a \in {x.date : x \in rows} : {x.date : x \in rows} = {a, a + d, a + 2 * d}

FirstDate(rows) == CHOOSE a \in {x.date : x \in rows} : \A x \in rows : x.date >= a

LastDate(rows) == CHOOSE a \in {x.date : x \in rows} : \A x \in rows : x.date <= a

\* C1: three expenses of one description and amount, d days apart with
\* 20 <= d <= 45, and no other row of that key, are reported as exactly one
\* recurring group with frequency_days = d, occurrences = 3 and
\* next_expected = the last occurrence + d days.
C1_ThreeMonthlyExpensesAreOneGroup ==
    IsRecurringResponse =>
        \A t \in Range(out.snapshot) :
            t.amount < 0 =>
                LET rows    == SameKeyRows(out.snapshot, t)
                    d       == (LastDate(rows) - FirstDate(rows)) \div 2
                    entries == EntriesOf(out.body, t)
                IN  (20 <= d /\ d <= 45 /\ ThreeEvenlySpaced(rows, t, d)) =>
                        /\ Cardinality(entries) = 1
                        /\ \A i \in entries :
                              /\ out.body[i].frequency_days = d
                              /\ out.body[i].occurrences = 3
                              /\ out.body[i].next_expected = DateLabel(LastDate(rows) + d)

\* C1 witness: the Netflix example of the specification (-15.00, 30 days
\* apart) has been answered with its single group.
C1_Witness ==
    /\ IsRecurringResponse
    /\ \E t \in Range(out.snapshot) :
          /\ t.description = Netflix /\ t.amount = -Dollars(15)
          /\ ThreeEvenlySpaced(SameKeyRows(out.snapshot, t), t, 30)
          /\ Cardinality(EntriesOf(out.body, t)) = 1
          /\ \E i \in EntriesOf(out.body, t) : out.body[i].frequency_days = 30

\* Twice the standard median of a non-empty set-indexed list of gaps: the
\* middle gap, or the mean of the two middle gaps.
TwiceMedian(deltas) ==
    LET s == SortInts(deltas)
        n == Len(s)
    IN  IF n % 2 = 1 THEN 2 * s[(n + 1) \div 2] ELSE s[n \div 2] + s[(n \div 2) + 1]

\* The acceptance test as the specification words it, on the standard median.
StandardRecurring(rows) ==
    /\ Cardinality(rows) >= 3
    /\ LET txs == SortByDate(GroupOf(out.snapshot, RecurringKey(CHOOSE x \in rows : TRUE)))
           deltas == Deltas(txs)
           m2 == TwiceMedian(deltas)
       IN  /\ \A i \in DOMAIN deltas : Abs(2 * deltas[i] - m2) <= 2 * 5
           /\ 2 * 20 <= m2 /\ m2 <= 2 * 45

\* C2: a group is reported if and only if it has at least 3 members, every
\* gap is within 5 days of the standard median of the gaps (the mean of the
\* two middle gaps when their number is even) and that median is in [20, 45].
C2_ReportedIffRegularByStandardMedian ==
    IsRecurringResponse =>
        \A t \in Range(out.snapshot) :
            t.amount < 0 =>
                (EntriesOf(out.body, t) # {} <=> StandardRecurring(SameKeyRows(out.snapshot, t)))

(***************************************************************************)
(* Inputs of the forecast runs                                             *)
(***************************************************************************)
\* The first month the 12-month history window reaches.
FirstHistoryMonth == ToPeriod(Today) - MinHistoryMonths

\* The months of history the inputs may touch, counted from FirstHistoryMonth.
MaxSpan == 13

HorizonChoices == {-1, 0, 1, 4}

Groceries == <<"G", "r", "o", "c", "e", "r", "y">>

Salary == <<"S", "a", "l", "a", "r", "y">>

\* An expense on the 26th of month FirstHistoryMonth + k.
MonthlyExpense(id, k, amount) ==
    Tx(id, 1, Ordinal(PeriodYear(FirstHistoryMonth + k), PeriodMonth(FirstHistoryMonth + k), 26),
       Groceries, -amount, "Food")

\* Which of the months first..last hold an expense: every month, the two
\* end months only, or every second month.
Patterns == {"all", "ends", "alternate"}

HasExpense(pattern, first, last, k) ==
    \/ k = first
    \/ k = last
    \/ pattern = "all"
    \/ pattern = "alternate" /\ (k - first) % 2 = 0

\* The size of the expense of month k: the same every month, or growing.
Shapes == {"flat", "rising"}

ShapedAmount(shape, k) == IF shape = "flat" THEN Dollars(10) ELSE Dollars(10 + k)

ExpenseMonths(pattern, first, last) ==
    LET Kept(k) == HasExpense(pattern, first, last, k)
    IN  SelectSeq([i \in 1..(last - first + 1) |-> first + i - 1], Kept)

HistoryDb(pattern, shape, first, last) ==
    LET ks == ExpenseMonths(pattern, first, last)
    IN  [i \in DOMAIN ks |-> MonthlyExpense(i, ks[i], ShapedAmount(shape, ks[i]))]

IncomeRows ==
    { <<>>, <<Tx(80, 1, Today - 40, Salary, Dollars(100), "Income")>> }

ForecastDbs ==
    {<<>>} \cup IncomeRows \cup
    { x \o HistoryDb(pattern, shape, first, last) :
        <<x, pattern, shape, first, last>> \in
            { t \in IncomeRows \X Patterns \X Shapes \X (0..(MaxSpan - 1)) \X (0..(MaxSpan - 1)) :
                t[4] <= t[5] } }

InitForecast ==
    /\ db \in ForecastDbs
    /\ now = Today
    /\ out = NoResponse
    /\ log = <<>>
    /\ users = <<>>

NextForecast ==
    \E user \in Users, months \in HorizonChoices :
        GetPredictSpending(user, months) /\ UNCHANGED <<log, users>>

SpecForecast == InitForecast /\ [][NextForecast]_vars

(***************************************************************************)
(* Claims about the forecast                                               *)
(***************************************************************************)
IsForecastResponse == out.op = "predict_spending" /\ out.status = 200

\* The calendar months (year, month) holding an expense row of the snapshot.
ExpenseCalendarMonths(snapshot) ==
    { <<YearOf(t.date), MonthOf(t.date)>> : t \in {x \in Range(snapshot) : x.amount < 0} }

IsInsufficient(body) ==
    /\ body.predictions = <<>>
    /\ RatEq(body.confidence, Rat(0, 1))
    /\ body.message \in { <<"Insufficient data for prediction">>,
                          <<"Insufficient historical data (need at least 6 months)">> }

\* C3: a snapshot whose expense rows fall in fewer than 6 distinct calendar
\* months is answered with predictions = [], confidence = 0 and an
\* explanatory message.
C3_FewMonthsGiveNoForecast ==
    IsForecastResponse =>
        (Cardinality(ExpenseCalendarMonths(out.snapshot)) < 6 => IsInsufficient(out.body))

\* A forecast was emitted: the message names the number of months used.
Emitted(body) == Len(body.message) = 2

AvailableMonths(body) == body.message[2]

\* C4: a forecast emitted from n >= 6 months has confidence
\* min(0.9, 0.5 + 0.1 * n), within [0.5, 0.9], and no smaller than the
\* confidence due to any smaller n in 6..12.
C4_ConfidenceFormula ==
    (IsForecastResponse /\ Emitted(out.body)) =>
        LET n == AvailableMonths(out.body)
            c == out.body.confidence
        IN  /\ n >= 6
            /\ n >= Cardinality(ExpenseCalendarMonths(out.snapshot))
            /\ c.d = 10
            /\ c.n = (IF 5 + n <= 9 THEN 5 + n ELSE 9)
            /\ 5 <= c.n /\ c.n <= 9
            /\ \A k \in 6..12 : k <= n => (IF 5 + k <= 9 THEN 5 + k ELSE 9) <= c.n

\* C4 witness: a forecast emitted from 12 months, each holding an expense.
C4_Witness ==
    /\ IsForecastResponse /\ Emitted(out.body)
    /\ AvailableMonths(out.body) = 12
    /\ Cardinality(ExpenseCalendarMonths(out.snapshot)) = 12
    /\ out.body.predictions # <<>>

\* C10: a request with months <= 0 is refused (a client error status), not
\* answered like any other request.
C10_NonPositiveMonthsRejected ==
    (out.op \in {"predict_spending", "spending_patterns"} /\ out.months <= 0) =>
        out.status \in {400, 422}

(***************************************************************************)
(* Inputs of the financial-health runs                                     *)
(***************************************************************************)
MaxHealthRows == 3

Rent == <<"R", "e", "n", "t">>

\* The rows a health input is made of: incomes and expenses, inside the
\* 90-day window or before it (still inside the 12 months analysed).
HealthRowChoices ==
    { [date |-> d, description |-> r[1], amount |-> r[2], category |-> r[3]] :
        <<d, r>> \in {Today - 10, Today - 100} \X
                     { <<Salary, Dollars(1000), "Income">>,
                       <<Salary, Dollars(400), "Income">>,
                       <<Groceries, -Dollars(500), "Food">>,
                       <<Rent, -Dollars(1500), "Rent">> } }

HealthDbs ==
    UNION { { [i \in 1..n |-> Tx(i, 1, f[i].date, f[i].description, f[i].amount, f[i].category)] :
                f \in [1..n -> HealthRowChoices] } : n \in 0..MaxHealthRows }

InitHealth ==
    /\ db \in HealthDbs
    /\ now = Today
    /\ out = NoResponse
    /\ log = <<>>
    /\ users = <<>>

NextHealth == \E user \in Users : GetFinancialHealth(user) /\ UNCHANGED <<log, users>>

SpecHealth == InitHealth /\ [][NextHealth]_vars

(***************************************************************************)
(* Claims about the health score                                           *)
(***************************************************************************)
IsHealthResponse == out.op = "financial_health" /\ out.status = 200

SnapshotIncome(snapshot) ==
    SumSeq([i \in DOMAIN snapshot |-> IF snapshot[i].amount > 0 THEN snapshot[i].amount ELSE 0])

SnapshotExpenses(snapshot) ==
    SumSeq([i \in DOMAIN snapshot |-> IF snapshot[i].amount < 0 THEN -snapshot[i].amount ELSE 0])

\* tenths / 10 is the rational n / d (d > 0) rounded to one decimal.
IsRoundedTenths(tenths, n, d) ==
    LET g == Gcd(Abs(n), d)
    IN  2 * Abs(tenths * (d \div g) - 10 * (n \div g)) <= d \div g

\* C5: over the 90-day snapshot, income is the sum of the positive amounts
\* and expenses the sum of the absolute negative amounts; the reported
\* savings_rate is (income - expenses) / income * 100, or 0 when income is
\* 0; the reported score is 50 + 0.5 * savings_rate clamped to [0, 100]
\* (both to one decimal), so 0 <= score <= 100.
C5_HealthScoreFormula ==
    IsHealthResponse =>
        LET income   == SnapshotIncome(out.snapshot)
            expenses == SnapshotExpenses(out.snapshot)
            body     == out.body
            \* 50 + 0.5 * rate = (100 * income - 50 * expenses) / income
            raw      == 100 * income - 50 * expenses
        IN  /\ body.income_last_3m = income
            /\ body.expenses_last_3m = expenses
            /\ 0 <= body.score /\ body.score <= 1000
            /\ income = 0 => (body.savings_rate = 0 /\ body.score = 500)
            /\ income > 0 =>
                  /\ IsRoundedTenths(body.savings_rate, (income - expenses) * 100, income)
                  /\ raw < 0 => body.score = 0
                  /\ raw > 100 * income => body.score = 1000
                  /\ (0 <= raw /\ raw <= 100 * income) =>
                         IsRoundedTenths(body.score, raw, income)
            /\ (income = Dollars(1000) /\ expenses = Dollars(500)) =>
                  (body.savings_rate = 500 /\ body.score = 750)

\* C5 witness: income 1000 and expenses 500 in the window, answered with
\* savings_rate 50.0 and score 75.0.
C5_Witness ==
    /\ IsHealthResponse
    /\ SnapshotIncome(out.snapshot) = Dollars(1000)
    /\ SnapshotExpenses(out.snapshot) = Dollars(500)
    /\ out.body.savings_rate = 500
    /\ out.body.score = 750

(***************************************************************************)
(* Inputs of the spending-analysis runs                                    *)
(***************************************************************************)
MaxAnalyzeRows == 3

MaxAnomalyRows == 12

AnalyzeMonthsChoices == {12, 1}

BankFee == <<"B", "a", "n", "k", " ", "F", "e", "e">>

\* Rows of three different months, in two expense categories.
AnalyzeRowChoices ==
    { [date |-> d, description |-> r[1], amount |-> r[2], category |-> r[3]] :
        <<d, r>> \in {Today - 5, Today - 35, Today - 95} \X
                     { <<Groceries, -Dollars(10), "Food">>,
                       <<Rent, -Dollars(20), "Rent">>,
                       <<Salary, Dollars(50), "Income">> } }

SmallDbs ==
    UNION { { [i \in 1..n |-> Tx(i, 1, f[i].date, f[i].description, f[i].amount, f[i].category)] :
                f \in [1..n -> AnalyzeRowChoices] } : n \in 0..MaxAnalyzeRows }

\* n rows of one amount, of user 1, ids from first_id, on the last days.
Copies(first_id, n, description, amount, category) ==
    [i \in 1..n |-> Tx(first_id + i - 1, 1, Today - 1 - (i % 3), description, amount, category)]

\* Many small expenses of one or two sizes, with or without one large
\* expense and incomes.
ManyRowsDbs ==
    { Copies(1, t[1], Groceries, -10, "Shopping")
      \o Copies(21, t[2], Groceries, -12, "Shopping")
      \o Copies(41, t[3], Rent, -200, "Rent")
      \o Copies(61, t[4], Salary, 900, "Income") :
        t \in { u \in (0..MaxAnomalyRows) \X (0..2) \X (0..1) \X {0, 1, 6} :
                  u[1] + u[2] + u[3] + u[4] <= MaxAnomalyRows } }

\* A large bank fee in a discretionary category beside at most one row, and
\* a monthly subscription beside a stray row.
FeeDbs ==
    { <<Tx(90, 1, Today - 36, BankFee, -Dollars(250), "Shopping")>> \o x :
        x \in {y \in SmallDbs : Len(y) <= 1} }

SubscriptionDbs ==
    { Series(50, 1, Netflix, -Dollars(15), SeriesDates(Today - 70, <<30, 31>>)) \o x :
        x \in {y \in SmallDbs : Len(y) <= 1} }

AnalyzeDbs == SmallDbs \cup ManyRowsDbs \cup FeeDbs \cup SubscriptionDbs

InitAnalyze ==
    /\ db \in AnalyzeDbs
    /\ now = Today
    /\ out = NoResponse
    /\ log = <<>>
    /\ users = <<>>

NextAnalyze ==
    \E user \in Users, months \in AnalyzeMonthsChoices :
        GetSpendingPatterns(user, months) /\ UNCHANGED <<log, users>>

SpecAnalyze == InitAnalyze /\ [][NextAnalyze]_vars

(***************************************************************************)
(* Claims about the spending analysis                                      *)
(***************************************************************************)
\* A spending analysis that returned its insights.
IsAnalysisResponse ==
    out.op = "spending_patterns" /\ out.status = 200 /\ out.body.insights # <<>>

\* The insights of the given type in the response body.
InsightsOfType(type) == {i \in DOMAIN out.body.insights : out.body.insights[i].type = type}

CalendarMonths(snapshot) == { <<YearOf(t.date), MonthOf(t.date)>> : t \in Range(snapshot) }

\* C6: when the transactions of the snapshot fall in fewer than 2 distinct
\* calendar months, the trend label is insufficient_data.
C6_FewMonthsTrendInsufficient ==
    (IsAnalysisResponse /\ Cardinality(CalendarMonths(out.snapshot)) < 2) =>
        /\ InsightsOfType("spending_trend") # {}
        /\ \A i \in InsightsOfType("spending_trend") :
              out.body.insights[i].data.trend = "insufficient_data"

\* C6 witness: a snapshot with all its rows in one month has been analysed.
C6_Witness ==
    /\ IsAnalysisResponse
    /\ Cardinality(CalendarMonths(out.snapshot)) = 1
    /\ Len(out.snapshot) >= 2
    /\ \E i \in InsightsOfType("spending_trend") :
          out.body.insights[i].data.trend = "insufficient_data"

ExpenseAmounts(snapshot) ==
    LET exp == SelectSeq(snapshot, IsExpense)
    IN  [i \in DOMAIN exp |-> -exp[i].amount]

\* C7: with fewer than 5 expense rows, or with all expense rows of one
\* absolute amount, the rule-based pass reports nothing: the analysis has
\* no spending_anomalies insight.
C7_DegenerateInputsGiveNoAnomalies ==
    IsAnalysisResponse =>
        LET x == ExpenseAmounts(out.snapshot)
        IN  (Len(x) < 5 \/ Cardinality(Range(x)) <= 1) =>
                InsightsOfType("spending_anomalies") = {}

\* C7 witness: ten or more expense rows of one amount have been analysed.
C7_Witness ==
    /\ IsAnalysisResponse
    /\ Len(ExpenseAmounts(out.snapshot)) >= 10
    /\ Cardinality(Range(ExpenseAmounts(out.snapshot))) = 1
    /\ InsightsOfType("spending_anomalies") = {}

\* The total absolute expense of category c in the snapshot.
CategoryTotal(snapshot, c) ==
    SumSeq([i \in DOMAIN snapshot |->
               IF snapshot[i].amount < 0 /\ snapshot[i].category = c
               THEN -snapshot[i].amount ELSE 0])

ExpenseCategories(snapshot) ==
    {t.category : t \in {x \in Range(snapshot) : x.amount < 0}}

\* C9: the category distribution lists every expense category once with its
\* total absolute expense, in descending order of total; the top category
\* has the largest total, its percentage is top / total * 100 <= 100, and
\* the shares of all categories add up to no more than 100.
C9_CategoryBreakdown ==
    IsAnalysisResponse =>
        LET snapshot == out.snapshot
            total == SnapshotExpenses(snapshot)
        IN  /\ Cardinality(InsightsOfType("category_distribution")) = 1
            /\ Cardinality(InsightsOfType("top_spending_category")) = 1
            /\ \A i \in InsightsOfType("category_distribution") :
                  LET data == out.body.insights[i].data
                  IN  /\ {data[k].category : k \in DOMAIN data} = ExpenseCategories(snapshot)
                      /\ Len(data) = Cardinality(ExpenseCategories(snapshot))
                      /\ \A k \in DOMAIN data :
                            data[k].amount = CategoryTotal(snapshot, data[k].category)
                      /\ \A k \in 1..(Len(data) - 1) : data[k].amount >= data[k + 1].amount
                      /\ SumSeq([k \in DOMAIN data |-> data[k].amount * 100]) <= 100 * total
            /\ \A i \in InsightsOfType("top_spending_category") :
                  LET top == out.body.insights[i]
                  IN  /\ top.category \in ExpenseCategories(snapshot)
                      /\ top.amount = CategoryTotal(snapshot, top.category)
                      /\ \A c \in ExpenseCategories(snapshot) :
                            CategoryTotal(snapshot, c) <= top.amount
                      /\ SameRatio(top.percentage, Rat(top.amount * 100, total))
                      /\ top.percentage.n <= 100 * top.percentage.d

\* C9 witness: a snapshot with expenses in two categories of different
\* totals, the larger stored last, has been analysed.
C9_Witness ==
    /\ IsAnalysisResponse
    /\ Cardinality(ExpenseCategories(out.snapshot)) = 2
    /\ CategoryTotal(out.snapshot, "Food") < CategoryTotal(out.snapshot, "Rent")
    /\ \E i \in InsightsOfType("top_spending_category") :
          out.body.insights[i].category = "Rent"

(***************************************************************************)
(* Repeated requests: every handler, twice over                            *)
(***************************************************************************)
MaxLog == 2

\* A few inputs of each kind.
RepeatDbs ==
    SubscriptionDbs \cup FeeDbs
    \cup {y \in HealthDbs : Len(y) <= 1}
    \cup {HistoryDb("all", "rising", 0, last) : last \in 4..6}

InitRepeat ==
    /\ db \in RepeatDbs
    /\ now = Today
    /\ out = NoResponse
    /\ log = <<>>
    /\ users = <<>>

\* One more completed request in the log: the response, and the table as
\* the handler found it and left it.
Logged ==
    /\ log' = Append(log, [response |-> out', db_before |-> db, db_after |-> db'])
    /\ UNCHANGED users

NextRepeat ==
    /\ Len(log) < MaxLog
    /\ \E user \in Users :
          \/ GetRecurringPayments(user, 12) /\ Logged
          \/ \E months \in AnalyzeMonthsChoices : GetSpendingPatterns(user, months) /\ Logged
          \/ \E months \in HorizonChoices : GetPredictSpending(user, months) /\ Logged
          \/ GetFinancialHealth(user) /\ Logged

SpecRepeat == InitRepeat /\ [][NextRepeat]_vars

SameRequest(a, b) ==
    /\ a.op = b.op /\ a.user = b.user /\ a.months = b.months
    /\ a.snapshot = b.snapshot

NegInfinity == -1000000000

IsFinite(x) == x # NegInfinity /\ x # -NegInfinity

MinExpensesForModel == 10

\* The rows handed to the model, whatever their sign.
AnomalyCandidates_AllRows(df) == df

\* expense_df = df[df['amount'] < 0].copy()
AnomalyCandidates(df) == Expenses(df)

\* StandardScaler().fit_transform(features) validates its input and raises
\* ValueError when a feature is not finite.
FitRaises(expense_df) ==
    \E i \in DOMAIN expense_df : ~IsFinite(expense_df[i].amount_abs)

\* expense_df[is_anomaly]: the rows whose label is -1, in frame order.
RECURSIVE BooleanMask(_, _)
BooleanMask(rows, is_anomaly) ==
    IF rows = <<>> THEN <<>>
    ELSE LET n    == Len(rows)
             head == BooleanMask(SubSeq(rows, 1, n - 1), is_anomaly)
         IN  IF is_anomaly[n] THEN Append(head, rows[n]) ELSE head

\* One entry of the result list.
Finding(anomaly) ==
    [transaction_id |-> anomaly.id,
     date |-> DateLabel(anomaly.date),
     description |-> anomaly.description,
     amount |-> anomaly.amount,
     category |-> anomaly.category,
     reason |-> "Unusual spending pattern detected"]

\* AIService.detect_anomalies up to clf.fit: the method returns [] early,
\* raises out of the fit, or goes on to label the rows of expense_df.
FitAnomalyModel(transactions) ==
    LET df         == PrepareTransactionData(transactions)
        expense_df == AnomalyCandidates(df)
    IN  IF transactions = <<>> THEN [result |-> "return", expense_df |-> <<>>]
        ELSE IF Len(expense_df) < MinExpensesForModel
        THEN [result |-> "return", expense_df |-> <<>>]
        ELSE IF FitRaises(expense_df) THEN [result |-> "raise", expense_df |-> <<>>]
        ELSE [result |-> "predict", expense_df |-> expense_df]

\* IsolationForest(contamination=0.1): contamination, in percent.
ContaminationPercent == 10

\* The most rows of n the fitted forest can label -1 on its training data:
\* the rows whose score is strictly below the ContaminationPercent-th
\* percentile (linear interpolation) of the n scores, at most
\* ceil(ContaminationPercent * (n - 1) / 100) of them.
MaxOutliers(n) == (ContaminationPercent * (n - 1) + 99) \div 100

\* The sets of row positions clf.predict(X) == -1 may mark.  The scores of
\* the forest are not computed here: every set of at most MaxOutliers(n)
\* positions is allowed.
OutlierSets(n) ==
    { {f[j] : j \in DOMAIN f} : f \in UNION {[1..m -> 1..n] : m \in 0..MaxOutliers(n)} }

\* AIService.detect_anomalies from clf.predict on.
DetectAnomalies(fitted, is_anomaly) ==
    LET anomalies == BooleanMask(fitted.expense_df, is_anomaly)
    IN  [i \in DOMAIN anomalies |-> Finding(anomalies[i])]

\* get_anomalies: the result, or HTTPException(500) for anything raised.
GetAnomalies(user, months) ==
    LET end_date     == now
        start_date   == AddMonths(end_date, -months)
        transactions == GetTransactions(user, start_date, end_date)
        fitted       == FitAnomalyModel(transactions)
        n            == Len(fitted.expense_df)
    IN  \E outliers \in OutlierSets(n) :
          LET is_anomaly == [i \in 1..n |-> i \in outliers]
          IN
            /\ out' = IF fitted.result = "raise"
                      THEN Response("anomalies", user, months, transactions, 500,
                                    [detail |-> "Error detecting anomalies"])
                      ELSE Response("anomalies", user, months, transactions, 200,
                                    DetectAnomalies(fitted, is_anomaly))
            /\ UNCHANGED <<db, now>>

(***************************************************************************)
(* Inputs of the anomaly runs                                              *)
(***************************************************************************)
MaxModelRows == 12

AnomalyMonthsChoices == {6, 1}

AnomalyVariants == {"equal", "outlier", "nonfinite"}

\* n expenses of user 1, ten days apart, the last one yesterday; the fourth
\* is 100 times the others ("outlier") or -inf ("nonfinite").
ExpenseRun(n, variant) ==
    [i \in 1..n |->
        Tx(i, 1, Today - 1 - 10 * (n - i), Groceries,
           IF i = 4 /\ variant = "outlier" THEN -Dollars(1000)
           ELSE IF i = 4 /\ variant = "nonfinite" THEN NegInfinity
           ELSE -Dollars(10),
           "Food")]

\* k salary rows of user 1, between the expenses.
SalaryRows(k) ==
    [i \in 1..k |-> Tx(100 + i, 1, Today - 5 - 30 * i, Salary, Dollars(1000), "Income")]

\* MinExpensesForModel expenses of user 1 without a category, the fourth 100
\* times the others.
UncategorizedRun ==
    [i \in 1..MinExpensesForModel |->
        Tx(i, 1, Today - 1 - 10 * (MinExpensesForModel - i), Groceries,
           IF i = 4 THEN -Dollars(1000) ELSE -Dollars(10), NullCategory)]

AnomalyDbs ==
    { SalaryRows(k) \o ExpenseRun(n, variant) :
        k \in 0..1, n \in 8..MaxModelRows, variant \in AnomalyVariants }
        \cup {UncategorizedRun}

InitAnomalies ==
    /\ db \in AnomalyDbs
    /\ now = Today
    /\ out = NoResponse
    /\ log = <<>>
    /\ users = <<>>

NextAnomalies ==
    \E user \in Users, months \in AnomalyMonthsChoices :
        GetAnomalies(user, months) /\ UNCHANGED <<log, users>>

SpecAnomalies == InitAnomalies /\ [][NextAnomalies]_vars

(***************************************************************************)
(* Claims about the model-based detector                                   *)
(***************************************************************************)
IsAnomalyRequest == out.op = "anomalies"

SnapshotExpenseRows(snapshot) ==
    LET Negative(t) == t.amount < 0 IN SelectSeq(snapshot, Negative)

\* The model-based path is entered and its fit rejects the features.
ModelPathFails(snapshot) ==
    /\ Len(SnapshotExpenseRows(snapshot)) >= 10
    /\ \E t \in Range(snapshot) : t.amount = NegInfinity

\* C11: when the model-based path fails on a snapshot (standardisation or
\* fit raises), the request is answered normally with the rule-based result
\* for that snapshot; no error reaches the caller.
C11_FitFailureFallsBackToRules ==
    (IsAnomalyRequest /\ ModelPathFails(out.snapshot)) =>
        /\ out.status = 200
        /\ out.body = DetectAnomaliesRule(PrepareTransactionData(out.snapshot))

\* C20: the model-based detector answers [] for fewer than 10 expense rows;
\* otherwise each finding is a distinct expense row of the snapshot with its
\* id, its date as year-month-day, its description, its signed amount and
\* the reason "Unusual spending pattern detected"; no income row is
\* reported.
C20_ModelFindingsAreExpenseRows ==
    (IsAnomalyRequest /\ out.status = 200) =>
        LET body == out.body
        IN  /\ Len(SnapshotExpenseRows(out.snapshot)) < 10 => body = <<>>
            /\ \A k \in DOMAIN body :
                  \E t \in Range(out.snapshot) :
                      /\ t.amount < 0
                      /\ body[k].transaction_id = t.id
                      /\ body[k].date = <<YearOf(t.date), MonthOf(t.date), DayOf(t.date)>>
                      /\ body[k].description = t.description
                      /\ body[k].amount = t.amount
                      /\ body[k].reason = "Unusual spending pattern detected"
            /\ \A j, k \in DOMAIN body :
                  j # k => body[j].transaction_id # body[k].transaction_id

\* C20 witness: findings were returned for a snapshot that also holds
\* income rows.
C20_Witness ==
    /\ IsAnomalyRequest /\ out.status = 200
    /\ Len(out.body) = 2
    /\ \E t \in Range(out.snapshot) : t.amount > 0
    /\ Len(SnapshotExpenseRows(out.snapshot)) >= 10

C12_NoExpenseRowsNeutralResult ==
    (out.op = "spending_patterns" /\ ExpenseAmounts(out.snapshot) = <<>>) =>
        /\ out.status = 200
        /\ InsightsOfType("spending_anomalies") = {}
        /\ InsightsOfType("recurring_payments") = {}
        /\ \A i \in InsightsOfType("spending_trend") :
              out.body.insights[i].data.trend = "insufficient_data"

\* The ids of the rows reported by the rule-based pass.
ReportedAnomalyIds ==
    UNION { {out.body.insights[i].data[k].id : k \in DOMAIN out.body.insights[i].data} :
            i \in InsightsOfType("spending_anomalies") }

\* The expense rows whose absolute amount is strictly above mu + 3 sigma of
\* the absolute expense amounts x (sample standard deviation), without
\* fractions: with S = sum(x), Q = sum(x^2) and n = Len(x),
\* sigma^2 = (n Q - S^2) / (n (n - 1)), and a > S/n + 3 sigma iff
\* n a - S > 0 and (n a - S)^2 (n - 1) > 9 n (n Q - S^2).
AboveThreeSigma(snapshot) ==
    LET x == ExpenseAmounts(snapshot)
        n == Len(x)
        S == SumSeq(x)
        Q == SumSeq([i \in DOMAIN x |-> x[i] * x[i]])
    IN  { t \in Range(snapshot) :
            /\ t.amount < 0
            /\ n * (-t.amount) - S > 0
            /\ (n * (-t.amount) - S) * (n * (-t.amount) - S) * (n - 1)
                  > 9 * n * (n * Q - S * S) }

\* C19: with at least 5 expense rows and sigma # 0, the rule-based pass
\* reports exactly the expense rows whose absolute amount is strictly above
\* mu + 3 sigma, each once, whatever income rows the snapshot holds.
C19_RuleFlagsExactlyAboveThreshold ==
    IsAnalysisResponse =>
        LET x == ExpenseAmounts(out.snapshot)
        IN  (Len(x) >= 5 /\ Cardinality(Range(x)) > 1) =>
               /\ ReportedAnomalyIds = {t.id : t \in AboveThreeSigma(out.snapshot)}
               /\ \A i \in InsightsOfType("spending_anomalies") :
                     Len(out.body.insights[i].data) = Cardinality(ReportedAnomalyIds)

\* C19 witness: among eleven or more expenses and some income rows, one
\* expense above the threshold has been reported, alone.
C19_Witness ==
    /\ IsAnalysisResponse
    /\ Len(ExpenseAmounts(out.snapshot)) >= 11
    /\ \E t \in Range(out.snapshot) : t.amount > 0
    /\ Cardinality(ReportedAnomalyIds) = 1
    /\ Cardinality(Range(ExpenseAmounts(out.snapshot))) > 1

(***************************************************************************)
(* The feature builder on its own: the frame every handler builds from     *)
(* the rows it fetched                                                     *)
(***************************************************************************)
MaxFeatureRows == 3

FeatureMonthsChoices == {1, 12}

\* Days before Today on which the rows of the feature runs are dated.
FeatureDayOffsets == {3, 10, 40}

FeatureAmounts == {-Dollars(10), Dollars(20)}

\* Tables of user 1 in any date order: the i-th row has id i.
FeatureDbs ==
    UNION { { [i \in 1..n |-> Tx(i, 1, Today - offset[i], Groceries, amount[i], "Food")] :
                offset \in [1..n -> FeatureDayOffsets],
                amount \in [1..n -> FeatureAmounts] } :
            n \in 0..MaxFeatureRows }

\* The first two steps of every analysis: fetch the window, build the frame.
BuildFeatures(user, months) ==
    LET end_date     == now
        start_date   == AddMonths(end_date, -months)
        transactions == GetTransactions(user, start_date, end_date)
    IN  /\ out' = Response("prepare_transaction_data", user, months, transactions,
                           200, PrepareTransactionData(transactions))
        /\ UNCHANGED <<db, now>>

InitFeatures ==
    /\ db \in FeatureDbs
    /\ now = Today
    /\ out = NoResponse
    /\ log = <<>>
    /\ users = <<>>

NextFeatures ==
    \E user \in Users, months \in FeatureMonthsChoices :
        BuildFeatures(user, months) /\ UNCHANGED <<log, users>>

SpecFeatures == InitFeatures /\ [][NextFeatures]_vars

\* x is the undefined marker: the test is made on the printed values, an
\* integer and the marker being of different kinds.
IsUndefined(x) == ToString(x) = ToString(NoValue)

\* A frame built from at least one fetched row.
IsFeatureFrame == out.op = "prepare_transaction_data" /\ out.snapshot # <<>>

\* C18: for a non-empty input in any order the frame has one row per input
\* transaction (same number of rows, same ids), dates ascending, and
\* days_since_last is the day difference to the row before it, undefined
\* for the first row only.
C18_FeatureRowsSortedWithGaps ==
    IsFeatureFrame =>
        LET df == out.body
        IN  /\ Len(df) = Len(out.snapshot)
            /\ \A t \in Range(out.snapshot) :
                  Cardinality({i \in DOMAIN df : df[i].id = t.id}) = 1
            /\ \A i \in 1..(Len(df) - 1) : df[i].date <= df[i + 1].date
            /\ IsUndefined(df[1].days_since_last)
            /\ \A i \in 2..Len(df) :
                  /\ ~IsUndefined(df[i].days_since_last)
                  /\ df[i].days_since_last = df[i].date - df[i - 1].date

\* C18 witness: a frame of three rows built from rows fetched in descending
\* date order.
C18_Witness ==
    /\ IsFeatureFrame
    /\ Len(out.body) = 3
    /\ \A i \in 1..2 : out.snapshot[i].date > out.snapshot[i + 1].date
    /\ IsUndefined(out.body[1].days_since_last)
    /\ out.body[3].days_since_last > 0

(***************************************************************************)
(* The application: routing (main.py), registration and login              *)
(* (modules/auth), the transaction endpoints (modules/transactions)        *)
(*                                                                         *)
(* users is the users table; log holds the registrations the application   *)
(* accepted, as the client sent them; None is <<>> and a found row u is    *)
(* <<u>>.                                                                  *)
(***************************************************************************)
\* The routers main.py mounts on the application: the auth router only,
\* the include_router calls of the other routers are commented out.
IncludedRouters == {"auth"}

\* What a request to the application leaves in `out`.
AppResponse(op, request, status, body) ==
    [op |-> op, request |-> request, status |-> status, body |-> body]

\* The framework's answer to a path that no mounted router serves.
NotFound(op, request) == AppResponse(op, request, 404, [detail |-> "Not Found"])

\* The framework's answer to a body that fails the schema.
Unprocessable(op, request) ==
    AppResponse(op, request, 422, [detail |-> "validation error"])

\* UserCreate.password: min_length.
MinPasswordLength == 8

\* bcrypt digests the first BcryptMaxBytes bytes of a password; passlib
\* passes longer passwords on without an error.
BcryptMaxBytes == 72

\* security.get_password_hash: the scheme and the bytes that determine the
\* digest (one byte per character; the salt, stored with the digest and
\* reused by verify, is left out).
GetPasswordHash(password) ==
    [scheme |-> "bcrypt",
     digest_of |-> SubSeq(password, 1, Min(Len(password), BcryptMaxBytes))]

\* security.verify_password.
VerifyPassword(plain_password, hashed_password) ==
    GetPasswordHash(plain_password) = hashed_password

\* security.create_access_token: the payload signed with the application's
\* key (the clock does not advance, so the expiry claim is left out).
CreateAccessToken(data) == [payload |-> data, key |-> "JWT_SECRET_KEY"]

\* security.decode_access_token: the payload, or None for a token that
\* was not signed with the application's key.
DecodeAccessToken(token) ==
    IF token.key = "JWT_SECRET_KEY" THEN <<token.payload>> ELSE <<>>

\* auth service.get_user_by_email: the first row with the email, or None.
GetUserByEmail(email) ==
    LET Same(u) == u.email = email
        rows    == SelectSeq(users, Same)
    IN  IF rows = <<>> THEN <<>> ELSE <<Head(rows)>>

\* The fields of UserPublic.
UserPublic(user) == [id |-> user.id, email |-> user.email, role |-> user.role]

\* POST /api/v1/auth/register: register_user and service.create_user.
RegisterUser(email, password) ==
    LET request  == [email |-> email, password |-> password, role |-> "user"]
        existing == GetUserByEmail(email)
        db_user  == [id |-> Len(users) + 1, email |-> email,
                     hashed_password |-> GetPasswordHash(password), role |-> "user"]
    IN  /\ IF "auth" \notin IncludedRouters
             THEN /\ out' = NotFound("register", request)
                  /\ UNCHANGED <<users, log>>
           ELSE IF Len(password) < MinPasswordLength
             THEN /\ out' = Unprocessable("register", request)
                  /\ UNCHANGED <<users, log>>
           ELSE IF existing # <<>>
             THEN /\ out' = AppResponse("register", request, 400,
                        [detail |-> "A user with this email address already exists."])
                  /\ UNCHANGED <<users, log>>
           ELSE /\ users' = Append(users, db_user)
                /\ out' = AppResponse("register", request, 201, UserPublic(db_user))
                /\ log' = Append(log, request)
        /\ UNCHANGED <<db, now>>

\* auth service.authenticate_user.
AuthenticateUser(email, password) ==
    LET user == GetUserByEmail(email)
    IN  IF user = <<>> THEN <<>>
        ELSE IF ~VerifyPassword(password, user[1].hashed_password) THEN <<>>
        ELSE user

\* POST /api/v1/auth/login: login_for_access_token.
LoginForAccessToken(username, password) ==
    LET request == [username |-> username, password |-> password]
        user    == AuthenticateUser(username, password)
    IN  /\ out' = IF "auth" \notin IncludedRouters THEN NotFound("login", request)
                  ELSE IF user = <<>>
                       THEN AppResponse("login", request, 401,
                                [detail |-> "Incorrect username or password"])
                  ELSE AppResponse("login", request, 200,
                           [access_token |-> CreateAccessToken([sub |-> user[1].email]),
                            token_type |-> "bearer"])
        /\ UNCHANGED <<db, now, log, users>>

\* oauth2_scheme and dependencies.get_current_user on the Authorization
\* header (<<>> when the request carries none): the user, or the detail of
\* the 401 raised.
GetCurrentUser(authorization) ==
    IF authorization = <<>> THEN [user |-> <<>>, detail |-> "Not authenticated"]
    ELSE LET payload == DecodeAccessToken(authorization[1])
             denied  == [user |-> <<>>, detail |-> "Could not validate credentials"]
         IN  IF payload = <<>> THEN denied
             ELSE IF "sub" \notin DOMAIN payload[1] THEN denied
             ELSE IF GetUserByEmail(payload[1].sub) = <<>> THEN denied
             ELSE [user |-> GetUserByEmail(payload[1].sub), detail |-> ""]

\* schemas.TransactionType.
TransactionTypes == {"income", "expense", "transfer", "investment", "savings"}

\* TransactionCreate: type is required and amount must be greater than 0.
ValidTransaction(transaction) ==
    /\ "type" \in DOMAIN transaction
    /\ transaction.type \in TransactionTypes
    /\ transaction.amount > 0

\* transactions service.create_user_transaction: the stored row.
CreateUserTransaction(transaction, user_id) ==
    [id |-> Len(db) + 1, user_id |-> user_id,
     description |-> transaction.description,
     amount |-> Round2(transaction.amount), category |-> transaction.category,
     type |-> transaction.type, date |-> transaction.date]

\* POST /api/v1/transactions/: create_transaction.
CreateTransaction(authorization, transaction) ==
    LET request == [authorization |-> authorization, transaction |-> transaction]
        current == GetCurrentUser(authorization)
    IN  /\ IF "transactions" \notin IncludedRouters
             THEN /\ out' = NotFound("create_transaction", request)
                  /\ UNCHANGED db
           ELSE IF current.user = <<>>
             THEN /\ out' = AppResponse("create_transaction", request, 401,
                                        [detail |-> current.detail])
                  /\ UNCHANGED db
           ELSE IF ~ValidTransaction(transaction)
             THEN /\ out' = Unprocessable("create_transaction", request)
                  /\ UNCHANGED db
           ELSE LET new_transaction ==
                        CreateUserTransaction(transaction, current.user[1].id)
                IN  /\ db' = Append(db, new_transaction)
                    /\ out' = AppResponse("create_transaction", request, 201,
                                          new_transaction)
        /\ UNCHANGED <<now, log, users>>

\* transactions service.get_transactions_by_user: the user's rows in table
\* order, after offset(skip) and limit(limit).
GetTransactionsByUser(user_id, skip, limit) ==
    LET Own(tx) == tx.user_id = user_id
        rows    == SelectSeq(db, Own)
    IN  SubSeq(rows, skip + 1, Min(Len(rows), skip + limit))

\* GET /api/v1/transactions/: read_transactions.
ReadTransactions(authorization, skip, limit) ==
    LET request == [authorization |-> authorization, skip |-> skip, limit |-> limit]
        current == GetCurrentUser(authorization)
    IN  /\ out' = IF "transactions" \notin IncludedRouters
                    THEN NotFound("read_transactions", request)
                  ELSE IF current.user = <<>>
                    THEN AppResponse("read_transactions", request, 401,
                                     [detail |-> current.detail])
                  ELSE AppResponse("read_transactions", request, 200,
                           GetTransactionsByUser(current.user[1].id, skip, limit))
        /\ UNCHANGED <<db, now, log, users>>

\* read_transactions: the default of limit.
DefaultLimit == 100

Emails == {"test@example.com", "other@example.com"}

Password123 == <<"p", "a", "s", "s", "w", "o", "r", "d", "1", "2", "3">>

WrongPassword == <<"w", "r", "o", "n", "g", "p", "a", "s", "s", "w", "o", "r", "d">>

ShortPassword == <<"p", "w">>

\* Two passwords that agree on their first BcryptMaxBytes characters only.
LongPasswordA == [i \in 1..BcryptMaxBytes |-> "x"] \o <<"A">>

LongPasswordB == [i \in 1..BcryptMaxBytes |-> "x"] \o <<"B">>

Passwords == {Password123, WrongPassword, ShortPassword, LongPasswordA, LongPasswordB}

\* The Authorization headers a client may send: none, a token signed with
\* another key, a token the application issued for an email.
Authorizations ==
    {<<>>, <<[payload |-> [sub |-> "test@example.com"], key |-> "forged"]>>}
        \cup {<<CreateAccessToken([sub |-> email])>> : email \in Emails}

Coffee == <<"C", "o", "f", "f", "e", "e">>

\* The body test_create_and_read_transaction posts (negative amount, no
\* type) and a body the schema accepts.
TransactionInputs ==
    {[description |-> Coffee, amount |-> -Cents(450), category |-> "Food",
      date |-> Ordinal(2025, 1, 1)],
     [description |-> Coffee, amount |-> Cents(450), category |-> "Food",
      date |-> Ordinal(2025, 1, 1), type |-> "expense"]}

Pages == {[skip |-> 0, limit |-> DefaultLimit], [skip |-> 1, limit |-> 1]}

InitApp ==
    /\ db = <<>>
    /\ users = <<>>
    /\ now = Today
    /\ out = NoResponse
    /\ log = <<>>

NextApp ==
    \/ \E email \in Emails, password \in Passwords : RegisterUser(email, password)
    \/ \E username \in Emails, password \in Passwords :
          LoginForAccessToken(username, password)
    \/ \E authorization \in Authorizations, transaction \in TransactionInputs :
          CreateTransaction(authorization, transaction)
    \/ \E authorization \in Authorizations, page \in Pages :
          ReadTransactions(authorization, page.skip, page.limit)

SpecApp == InitApp /\ [][NextApp]_vars

(***************************************************************************)
(* Claims about registration, login and the transaction endpoints          *)
(***************************************************************************)
\* C14: a valid registration request whose email is already registered is
\* answered 400 with detail "Email already registered" and leaves the
\* users table as it was; the table never holds two rows with one email.
C14_DuplicateEmailRejected ==
    [][ ( /\ out'.op = "register"
          /\ Len(out'.request.password) >= MinPasswordLength
          /\ \E i \in DOMAIN users : users[i].email = out'.request.email )
        => /\ out'.status = 400
           /\ out'.body = [detail |-> "Email already registered"]
           /\ users' = users
           /\ \A i, j \in DOMAIN users' :
                 users'[i].email = users'[j].email => i = j ]_vars

\* The registration that created the account of the email, if any.
RegisteredWith(email, password) ==
    \E i \in DOMAIN log : log[i].email = email /\ log[i].password = password

\* C15: a login gets a bearer token exactly when its email is registered
\* and its password is the one given at registration; every other login is
\* answered 401 "Incorrect username or password", whether or not the email
\* is registered.
C15_TokenIffRegisteredPassword ==
    out.op = "login" =>
        IF RegisteredWith(out.request.username, out.request.password)
        THEN /\ out.status = 200
             /\ out.body.token_type = "bearer"
        ELSE /\ out.status = 401
             /\ out.body = [detail |-> "Incorrect username or password"]

\* C16: a request to list or create transactions without a bearer token is
\* answered 401 "Not authenticated" and stores nothing.
C16_NoTokenNotAuthenticated ==
    [][ ( /\ out'.op \in {"create_transaction", "read_transactions"}
          /\ out'.request.authorization = <<>> )
        => /\ out'.status = 401
           /\ out'.body = [detail |-> "Not authenticated"]
           /\ db' = db ]_vars

\* C17: a transaction created by an authenticated user is stored for that
\* user with its description and amount, and an authenticated listing is
\* answered with exactly the user's own rows (within the page).
C17_ListingIsOwnTransactions ==
    [][ LET current == GetCurrentUser(out'.request.authorization)
        IN  /\ ( /\ out'.op = "create_transaction"
                 /\ current.user # <<>>
                 /\ ValidTransaction(out'.request.transaction) )
               => \E i \in DOMAIN db' :
                     /\ i \notin DOMAIN db
                     /\ db'[i].user_id = current.user[1].id
                     /\ db'[i].description = out'.request.transaction.description
                     /\ db'[i].amount = out'.request.transaction.amount
            /\ ( out'.op = "read_transactions" /\ current.user # <<>> )
               => /\ out'.status = 200
                  /\ out'.body = GetTransactionsByUser(current.user[1].id,
                                     out'.request.skip, out'.request.limit) ]_vars

(***************************************************************************)
(* Further claims about the recurring-payment detector                     *)
(***************************************************************************)
\* The description lower-cased with every character that is neither a
\* letter nor whitespace removed.
LettersAndSpaces(description) == SelectSeq(Lower(description), AlphaOrSpace)

\* transaction_groups of a snapshot, as the sets of member rows.
TransactionGroups(snapshot) ==
    {Range(GroupOf(snapshot, key)) : key \in Range(GroupKeys(snapshot))}

\* C27: in every answered recurring-payment request, two expenses of the
\* snapshot whose descriptions differ only in letter case, digits or
\* punctuation and whose amounts round to the same cent are in one group,
\* two expenses whose amounts round to different cents are in no common
\* group, no group holds a row that is not an expense, and each reported
\* entry is one of these groups: its amount is the rounded amount of the
\* members and its occurrences is the number of members.
C27_GroupsByNormalizedDescriptionAndAmount ==
    IsRecurringResponse =>
        LET groups   == TransactionGroups(out.snapshot)
            expenses == {x \in Range(out.snapshot) : x.amount < 0}
        IN  /\ \A x, y \in expenses :
                  /\ ( /\ LettersAndSpaces(x.description) = LettersAndSpaces(y.description)
                       /\ Round2(x.amount) = Round2(y.amount) )
                        => \E g \in groups : x \in g /\ y \in g
                  /\ Round2(x.amount) # Round2(y.amount)
                        => ~ \E g \in groups : x \in g /\ y \in g
            /\ \A g \in groups : g \subseteq expenses
            /\ \A i \in DOMAIN out.body :
                  \E g \in groups :
                      /\ out.body[i].occurrences = Cardinality(g)
                      /\ \A x \in g : Round2(x.amount) = out.body[i].amount
                      /\ \E x \in g : x.description = out.body[i].description

\* C27 witness: one reported group of three expenses written "Netflix" and
\* "net-FLIX2!" with amounts -15.00 and -14.996, while the snapshot also
\* holds an income of that description and an expense of -15.006 (rounds to
\* -15.01), neither of them counted.
C27_Witness ==
    /\ IsRecurringResponse
    /\ Len(out.snapshot) = 5
    /\ \E x, y \in Range(out.snapshot) :
          /\ x.description = Netflix /\ y.description = NetflixDash
          /\ x.amount = -Dollars(15) + 2 /\ y.amount = -Dollars(15)
    /\ \E x \in Range(out.snapshot) : x.description = NetflixDash /\ x.amount > 0
    /\ \E x \in Range(out.snapshot) : x.amount < 0 /\ Round2(x.amount) = -Cents(1501)
    /\ Len(out.body) = 1
    /\ out.body[1].occurrences = 3
    /\ out.body[1].amount = -Dollars(15)

(***************************************************************************)
(* Claim about the top category of the summary                             *)
(***************************************************************************)
\* C28: in every analysis result, summary.top_category is the category of
\* the top_spending_category insight of the same result, and that category
\* has the largest total absolute expense of the snapshot.
C28_SummaryTopCategoryIsTopInsight ==
    IsAnalysisResponse =>
        /\ InsightsOfType("top_spending_category") # {}
        /\ \A i \in InsightsOfType("top_spending_category") :
              /\ out.body.summary.top_category = out.body.insights[i].category
              /\ \A c \in ExpenseCategories(out.snapshot) :
                    CategoryTotal(out.snapshot, c)
                        <= CategoryTotal(out.snapshot, out.body.summary.top_category)

(***************************************************************************)
(* Claims about the monthly aggregates and the trend                       *)
(***************************************************************************)
\* The total absolute expense of the calendar month ym in the snapshot.
MonthExpense(snapshot, ym) ==
    SumSeq([i \in DOMAIN snapshot |->
               IF /\ snapshot[i].amount < 0
                  /\ <<YearOf(snapshot[i].date), MonthOf(snapshot[i].date)>> = ym
               THEN -snapshot[i].amount ELSE 0])

\* The k-th (from 1) of the calendar months holding an expense, ascending.
ExpenseMonthAt(snapshot, k) ==
    CHOOSE ym \in ExpenseCalendarMonths(snapshot) :
        Cardinality({m \in ExpenseCalendarMonths(snapshot) :
                        m[1] * 12 + m[2] < ym[1] * 12 + ym[2]}) = k - 1

\* The monthly expense totals in month order.
MonthlyExpenseTotals(snapshot) ==
    [k \in 1..Cardinality(ExpenseCalendarMonths(snapshot)) |->
        MonthExpense(snapshot, ExpenseMonthAt(snapshot, k))]

\* A positive multiple of the least-squares slope of y against the
\* positions 0, 1, ..: sum over k of (x_k - mean(x)) * y_k, doubled.
IndexSlope(y) ==
    SumSeq([k \in DOMAIN y |-> (2 * (k - 1) - (Len(y) - 1)) * y[k]])

C23_MonthlyAggregates ==
    IsAnalysisResponse =>
        LET y == MonthlyExpenseTotals(out.snapshot)
        IN  /\ InsightsOfType("spending_trend") # {}
            /\ \A i \in InsightsOfType("spending_trend") :
                  LET stats == out.body.insights[i].data
                  IN  /\ Len(stats.data) = Len(y)
                      /\ \A k \in DOMAIN y :
                            /\ stats.data[k].month = ExpenseMonthAt(out.snapshot, k)
                            /\ stats.data[k].amount = y[k]
                      /\ RatEq(stats.average_monthly_spend, Rat(SumSeq(y), Len(y)))
                      /\ stats.max_monthly_spend \in Range(y)
                      /\ stats.min_monthly_spend \in Range(y)
                      /\ \A k \in DOMAIN y :
                            /\ y[k] <= stats.max_monthly_spend
                            /\ y[k] >= stats.min_monthly_spend
                      /\ SumSeq(Column(stats.data, "amount")) = SnapshotExpenses(out.snapshot)

\* C23 witness: expenses in two months, and an income row in a month
\* without expenses, have been aggregated into two entries.
C23_Witness ==
    /\ IsAnalysisResponse
    /\ Cardinality(ExpenseCalendarMonths(out.snapshot)) = 2
    /\ \E t \in Range(out.snapshot) :
          /\ t.amount > 0
          /\ <<YearOf(t.date), MonthOf(t.date)>> \notin ExpenseCalendarMonths(out.snapshot)
    /\ \E i \in InsightsOfType("spending_trend") :
          /\ Len(out.body.insights[i].data.data) = 2
          /\ out.body.insights[i].data.max_monthly_spend
                > out.body.insights[i].data.min_monthly_spend

(***************************************************************************)
(* Further claims about the forecast                                       *)
(***************************************************************************)
\* The latest month (as a period) holding an expense row of the snapshot.
LastExpensePeriod(snapshot) ==
    LET periods == {ToPeriod(t.date) : t \in {x \in Range(snapshot) : x.amount < 0}}
    IN  CHOOSE p \in periods : \A q \in periods : q <= p

\* C24: a forecast emitted for horizon h >= 1 has exactly h entries; the
\* amounts are one baseline times 0.9, 1.0, 1.1, 0.9, ..; the labels are
\* the h calendar months following the last historical month, in order.
C24_ForecastSequence ==
    (IsForecastResponse /\ Emitted(out.body) /\ out.months >= 1) =>
        LET p    == out.body.predictions
            last == LastExpensePeriod(out.snapshot)
        IN  /\ Len(p) = out.months
            /\ \A k \in DOMAIN p :
                  /\ SameRatio(p[k].amount,
                               Rat(p[1].amount.n * (10 + (((k - 1) % 3) - 1)),
                                   p[1].amount.d * 9))
                  /\ p[k].date = PeriodLabel(last + k)

\* C24 witness: a forecast of the four months after May 2025, with a
\* baseline above 0.
C24_Witness ==
    /\ IsForecastResponse /\ Emitted(out.body)
    /\ Len(out.body.predictions) = 4
    /\ out.body.predictions[1].amount.n > 0
    /\ out.body.predictions[1].date = <<2025, 6>>
    /\ out.body.predictions[4].date = <<2025, 9>>

\* C25: the baseline of an emitted forecast is the arithmetic mean of the
\* monthly expense totals of the last w months, w = min(3, n // 2) for n
\* available months (the first prediction is 0.9 times the baseline).
C25_BaselineIsTrailingMean ==
    (IsForecastResponse /\ Emitted(out.body) /\ out.body.predictions # <<>>) =>
        LET n    == AvailableMonths(out.body)
            w    == Min(3, n \div 2)
            last == LastExpensePeriod(out.snapshot)
            tail == SumSeq([j \in 1..w |->
                        MonthExpense(out.snapshot, PeriodLabel(last - j + 1))])
        IN  SameRatio(out.body.predictions[1].amount, Rat(tail * 9, w * 10))

(***************************************************************************)
(* Further claims about the health result                                  *)
(***************************************************************************)
\* The rows of the requesting user that the 12-month spending analysis of
\* the health request fetched.
HealthAnalysisRows ==
    LET Fetched(t) == /\ t.user_id = out.user
                      /\ t.date >= AddMonths(now, -12) /\ t.date <= now
    IN  SelectSeq(db, Fetched)

\* The positions of the health insights of the given type and severity.
HealthInsightsOf(type, severity) ==
    {i \in DOMAIN out.body.insights :
        out.body.insights[i].type = type /\ out.body.insights[i].severity = severity}

\* C26: the health result holds a high-severity low-savings insight exactly
\* when the savings rate of the 90-day snapshot is below 10 (0 without
\* income); it holds a medium-severity insight naming the top spending
\* category whenever the analysed rows hold an expense; and it ends with
\* the same three recommendations.
C26_HealthInsightsAndRecommendations ==
    IsHealthResponse =>
        LET income   == SnapshotIncome(out.snapshot)
            expenses == SnapshotExpenses(out.snapshot)
            low      == income = 0 \/ (income - expenses) * 100 < 10 * income
            rows     == HealthAnalysisRows
            cats     == ExpenseCategories(rows)
        IN  /\ (HealthInsightsOf("low_savings_rate", "high") # {}) <=> low
            /\ \A i \in DOMAIN out.body.insights :
                  out.body.insights[i].type = "low_savings_rate" =>
                      out.body.insights[i].severity = "high"
            /\ cats # {} =>
                  \E i \in HealthInsightsOf("spending_insight", "medium") :
                      /\ out.body.insights[i].category \in cats
                      /\ \A c \in cats :
                            CategoryTotal(rows, c)
                               <= CategoryTotal(rows, out.body.insights[i].category)
            /\ out.body.recommendations =
                  <<"Review your monthly subscriptions and cancel unused services",
                    "Set up automatic transfers to savings on payday",
                    "Create a budget for discretionary spending">>

\* C26 witness: a result without the low-savings insight (income and no
\* expense in the 90-day snapshot) whose top category, Rent, comes from
\* expenses older than the snapshot.
C26_Witness ==
    /\ IsHealthResponse
    /\ SnapshotIncome(out.snapshot) > 0
    /\ SnapshotExpenses(out.snapshot) = 0
    /\ HealthInsightsOf("low_savings_rate", "high") = {}
    /\ \E i \in HealthInsightsOf("spending_insight", "medium") :
          out.body.insights[i].category = "Rent"

(***************************************************************************)
(* Inputs of the categorisation runs                                       *)
(***************************************************************************)
MaxCategorizeRows == 2

UberTrip == <<"U", "B", "E", "R", " ", "t", "r", "i", "p">>

\* Rows of both users: with a keyword, without one, or without a
\* description; not categorised, with the empty string as category, or in
\* a category of their own.
CategorizeRowChoices ==
    { [user |-> u, description |-> d, category |-> c] :
        <<u, d, c>> \in Users \X {Netflix, UberTrip, Groceries, NullDescription}
                              \X {"Uncategorized", "", "Food"} }

CategorizeDbs ==
    UNION { { [i \in 1..n |->
                  Tx(i, f[i].user, Today - i, f[i].description, -Dollars(10), f[i].category)] :
                f \in [1..n -> CategorizeRowChoices] } : n \in 0..MaxCategorizeRows }

\* No ids (None or []), one id, two ids, an id that may not exist.
TransactionIdChoices == {<<>>, <<1>>, <<2>>, <<1, 2>>, <<3>>}

InitCategorize ==
    /\ db \in CategorizeDbs
    /\ now = Today
    /\ out = NoResponse
    /\ log = <<>>
    /\ users = <<>>

NextCategorize ==
    \E user \in Users, transaction_ids \in TransactionIdChoices :
        CategorizeEndpoint(user, transaction_ids) /\ UNCHANGED <<log, users>>

SpecCategorize == InitCategorize /\ [][NextCategorize]_vars

(***************************************************************************)
(* Claim about the categorisation                                          *)
(***************************************************************************)
\* The rows a step has changed.
ChangedRows == {i \in DOMAIN db : db'[i] # db[i]}

\* C29: a categorisation call of a user changes nothing but the category
\* of rows of that user whose category was null or "Uncategorized", with
\* or without explicit ids; the count it returns is the number of rows it
\* changed; and a call without ids directly after a completed call without
\* ids of the same user changes nothing and returns categorized 0 with the
\* message "No transactions to categorize".
C29_CategorizeOnlyOwnUncategorized ==
    [][ out'.op = "categorize" =>
          /\ DOMAIN db' = DOMAIN db
          /\ \A i \in ChangedRows :
                /\ db[i].user_id = out'.user
                /\ db[i].category \in {NullCategory, "Uncategorized"}
                /\ db'[i] = [db[i] EXCEPT !.category = db'[i].category]
          /\ out'.task.result = "return" =>
                out'.task.value.categorized = Cardinality(ChangedRows)
          /\ ( /\ out.op = "categorize"
               /\ out.task.result = "return"
               /\ out.transaction_ids = <<>>
               /\ out'.transaction_ids = <<>>
               /\ out'.user = out.user )
                => /\ db' = db
                   /\ out'.task.result = "return"
                   /\ out'.task.value =
                         [categorized |-> 0, message |-> "No transactions to categorize"]
      ]_vars

(***************************************************************************)
(* transactions/service.py: update, delete and bulk operations             *)
(***************************************************************************)
\* What a service function leaves in `out`: the call (op, user, request),
\* the table before it, and how it ended: "return" with the value, or
\* "raise".
ServiceCall(op, user, request, snapshot, result, value) ==
    [op |-> op, user |-> user, request |-> request, snapshot |-> snapshot,
     result |-> result, value |-> value]

\* The parameters log_activity declares.
LogActivityParameters ==
    {"db", "action", "user", "request", "resource_type", "resource_id",
     "details", "status", "error_message"}

\* A call of log_activity with the given keywords: a keyword that is not a
\* parameter is a TypeError.
LogActivity(keywords) ==
    IF keywords \subseteq LogActivityParameters THEN "return" ELSE "raise"

\* The lookup by id alone.
GetTransaction_AnyOwner(rows, transaction_id, user_id) ==
    LET Match(tx) == tx.id = transaction_id
        found == SelectSeq(rows, Match)
    IN  IF found = <<>> THEN <<>> ELSE <<found[1]>>

\* get_transaction: <<>> is None, <<tx>> the first match.
GetTransaction(rows, transaction_id, user_id) ==
    LET Match(tx) == tx.id = transaction_id /\ tx.user_id = user_id
        found == SelectSeq(rows, Match)
    IN  IF found = <<>> THEN <<>> ELSE <<found[1]>>

\* setattr(transaction, field, value) for every field of `updates` the
\* object has.
SetAttrs(tx, updates) ==
    [field \in DOMAIN tx |-> IF field \in DOMAIN updates THEN updates[field] ELSE tx[field]]

\* db.commit() of a changed table: the primary key stays unique, or the
\* commit raises and the table is as before.
CommitOk(rows) == \A i, j \in DOMAIN rows : rows[i].id = rows[j].id => i = j

\* update_transaction
UpdateTransaction(user_id, transaction_id, update_data) ==
    LET db_transaction == GetTransaction(db, transaction_id, user_id)
        request == [transaction_id |-> transaction_id, update_data |-> update_data]
        updated == [i \in DOMAIN db |->
                       IF db[i] = db_transaction[1] THEN SetAttrs(db[i], update_data)
                       ELSE db[i]]
        logged == LogActivity({"db", "action", "user_id", "request", "resource_type",
                               "resource_id", "details"})
    IN  IF db_transaction = <<>>
        THEN /\ out' = ServiceCall("update_transaction", user_id, request, db, "return", <<>>)
             /\ UNCHANGED <<db, now>>
        ELSE /\ db' = updated
             /\ out' = IF logged = "raise"
                       THEN ServiceCall("update_transaction", user_id, request, db,
                                        "raise", <<>>)
                       ELSE ServiceCall("update_transaction", user_id, request, db,
                                        "return", <<SetAttrs(db_transaction[1], update_data)>>)
             /\ UNCHANGED now

\* delete_transaction: the activity is logged before the row is deleted.
DeleteTransaction(user_id, transaction_id) ==
    LET db_transaction == GetTransaction(db, transaction_id, user_id)
        request == [transaction_id |-> transaction_id]
        logged == LogActivity({"db", "action", "user_id", "request", "resource_type",
                               "resource_id", "details"})
        Kept(tx) == tx # db_transaction[1]
    IN  IF db_transaction = <<>>
        THEN /\ out' = ServiceCall("delete_transaction", user_id, request, db, "return", FALSE)
             /\ UNCHANGED <<db, now>>
        ELSE IF logged = "raise"
        THEN /\ out' = ServiceCall("delete_transaction", user_id, request, db, "raise", <<>>)
             /\ UNCHANGED <<db, now>>
        ELSE /\ db' = SelectSeq(db, Kept)
             /\ out' = ServiceCall("delete_transaction", user_id, request, db, "return", TRUE)
             /\ UNCHANGED now

\* bulk_update_transactions; where the request leaves them out, updates
\* is <<>> and new_category is "" (both count as false).
BulkUpdateTransactions(user_id, operation) ==
    LET Selected(tx) == tx.id \in Range(operation.transaction_ids) /\ tx.user_id = user_id
        transactions == SelectSeq(db, Selected)
        Kept(tx) == ~Selected(tx)
        changed ==
            IF operation.operation = "update" /\ DOMAIN operation.updates # {}
            THEN [i \in DOMAIN db |->
                     IF Selected(db[i]) THEN SetAttrs(db[i], operation.updates) ELSE db[i]]
            ELSE IF operation.operation = "delete"
            THEN SelectSeq(db, Kept)
            ELSE IF operation.operation = "categorize" /\ operation.new_category # ""
            THEN [i \in DOMAIN db |->
                     IF Selected(db[i])
                     THEN [db[i] EXCEPT !.category = operation.new_category] ELSE db[i]]
            ELSE db
        updated_count == Len(transactions)
        logged == LogActivity({"db", "action", "user_id", "request", "resource_type",
                               "details"})
    IN  IF transactions = <<>>
        THEN /\ out' = ServiceCall("bulk_update_transactions", user_id, operation, db, "return",
                                   [status |-> "error",
                                    message |-> "No valid transactions found",
                                    updated_count |-> 0])
             /\ UNCHANGED <<db, now>>
        ELSE IF ~CommitOk(changed)
        THEN /\ out' = ServiceCall("bulk_update_transactions", user_id, operation, db,
                                   "raise", <<>>)
             /\ UNCHANGED <<db, now>>
        ELSE /\ db' = changed
             /\ out' = IF logged = "raise"
                       THEN ServiceCall("bulk_update_transactions", user_id, operation, db,
                                        "raise", <<>>)
                       ELSE ServiceCall("bulk_update_transactions", user_id, operation, db,
                                        "return",
                                        [status |-> "success",
                                         message |-> "Successfully " \o operation.operation
                                                     \o "d " \o ToString(updated_count)
                                                     \o " transactions",
                                         updated_count |-> updated_count])
             /\ UNCHANGED now

(***************************************************************************)
(* Inputs of the write runs                                                *)
(***************************************************************************)
MaxWriteRows == 2

\* Tables of up to MaxWriteRows rows of the two users.
WriteDbs ==
    UNION { { [i \in 1..n |-> Tx(i, f[i][1], Today - i, Groceries, -Dollars(10), f[i][2])] :
                f \in [1..n -> Users \X {"Food"}] } : n \in 0..MaxWriteRows }

\* Ids of stored rows and one past them.
WriteIds == 1..(MaxWriteRows + 1)

UpdateChoices == { [category |-> "Shopping"], [category |-> "Food"] }

\* Bulk requests the schema accepts: an update of a column, of the owner,
\* of the key or of a field the row does not have; a delete; a categorize.
BulkChoices ==
    { [operation |-> o[1], transaction_ids |-> ids, updates |-> o[2], new_category |-> o[3]] :
        <<o, ids>> \in { <<"update", [category |-> "Shopping"], "">>,
                        <<"update", [user_id |-> 2], "">>,
                        <<"update", [id |-> 2], "">>,
                        <<"update", [colour |-> "red"], "">>,
                        <<"delete", <<>>, "">>,
                        <<"categorize", <<>>, "Rent">> }
                      \X {<<>>, <<1>>, <<1, 2>>, <<3>>} }

InitWrites ==
    /\ db \in WriteDbs
    /\ now = Today
    /\ out = NoResponse
    /\ log = <<>>
    /\ users = <<>>

NextWrites ==
    \/ \E user \in Users, id \in WriteIds, update_data \in UpdateChoices :
          UpdateTransaction(user, id, update_data) /\ UNCHANGED <<log, users>>
    \/ \E user \in Users, id \in WriteIds :
          DeleteTransaction(user, id) /\ UNCHANGED <<log, users>>
    \/ \E user \in Users, operation \in BulkChoices :
          BulkUpdateTransactions(user, operation) /\ UNCHANGED <<log, users>>

SpecWrites == InitWrites /\ [][NextWrites]_vars

(***************************************************************************)
(* Claim about the isolation of writes                                     *)
(***************************************************************************)
WriteOps == {"update_transaction", "delete_transaction", "bulk_update_transactions"}

\* The ids a write call names.
NamedIds(call) ==
    IF call.op = "bulk_update_transactions" THEN Range(call.request.transaction_ids)
    ELSE {call.request.transaction_id}

\* The value each function returns when it finds no row of the caller.
NothingFound(op) ==
    IF op = "update_transaction" THEN <<>>
    ELSE IF op = "delete_transaction" THEN FALSE
    ELSE [status |-> "error", message |-> "No valid transactions found", updated_count |-> 0]

\* C30: a call of update_transaction, delete_transaction or
\* bulk_update_transactions for user u leaves every row that another user
\* owned before the call stored and unchanged; and when none of the ids it
\* names is the id of a row of u, it returns None, False or the error dict
\* "No valid transactions found" with updated_count 0, and the table is
\* unchanged.
C30_WritesAreIsolated ==
    [][ out'.op \in WriteOps =>
          /\ \A t \in Range(db) : t.user_id # out'.user => t \in Range(db')
          /\ (~ \E t \in Range(db) : t.user_id = out'.user /\ t.id \in NamedIds(out'))
                => /\ out'.result = "return"
                   /\ out'.value = NothingFound(out'.op)
                   /\ db' = db
      ]_vars

\* C30 witness: a bulk delete naming a row of the caller and a row of the
\* other user has removed the first and left the second.
C30_Witness ==
    /\ out.op = "bulk_update_transactions"
    /\ out.request.operation = "delete"
    /\ out.request.transaction_ids = <<1, 2>>
    /\ Len(out.snapshot) = 2
    /\ out.snapshot[1].user_id = out.user
    /\ out.snapshot[2].user_id # out.user
    /\ db = <<out.snapshot[2]>>

====
